---- MODULE Spec2Model ----
(***************************************************************************)
(* chatserver: the state store (package model), its action log (package    *)
(* actions: Logger and Replayer) and the calls the store makes on the      *)
(* subscription engine.                                                    *)
(*                                                                         *)
(* Strings are sequences of chunks: a chunk is a run of ordinary           *)
(* characters ("alice") or one distinguished character: SP (a space), Tab, *)
(* Newline,                                                                *)
(* BadByte (a byte that is not valid UTF-8, such as 0xE9 sent by a Latin-1 *)
(* telnet client) or RuneError (U+FFFD).  The empty string is << >>.       *)
(***************************************************************************)
EXTENDS Integers, Sequences, FiniteSets, TLC

VARIABLES
    users,          \* Model.users: username -> BlockedUsers (a slice)
    channels,       \* Model.channels: channelname -> Messages (a slice)
    actionsLogger,  \* Model.actionsLogger # nil
    subsEngine,     \* Model.subsEngine # nil
    logFile,        \* the JSON array persisted at Logger.logFilePath
    triggered,      \* SubsEngine calls made by the store call that ran last
    lastCall,       \* the store call that ran last and the outcome of its checks
    mutex,          \* Model.mutex: its holder, or NoOne
    pc,             \* goroutine -> its position inside its store call
    call,           \* goroutine -> the store call it is executing
    applied,        \* the calls that changed the store, in the order of the changes
    process,        \* the server process: "starting", "serving" or "exited"
    clients,        \* Engine.clients: the connected subscription clients
    testActor,      \* TestActor.Actions: the calls a Replay made on the test's Actor
    logged,         \* the calls a test made on the Logger, in their order
    engineMutex,    \* Engine.mutex: the dispatch goroutine holding it, or NoDispatch
    dispatches,     \* the goroutines the Engine's triggers started, in trigger order
    delivered,      \* the Client callbacks invoked, in the order of the invocations
    held,           \* channelname -> the messages the channel has, or had when deleted
    returned,       \* the value a query returned last, as its caller holds it
    disk,           \* the text of the file at Logger.logFilePath, or NoFile
    telnetConn,     \* the TelnetConn of a telnet connection: its fields
    frame,          \* the TelnetConn callback that is executing: its position and locals
    printed,        \* the message lines written to the telnet client, in their order
    session         \* the connection's ServeTELNET, handleConn and connChan

storeVars == <<users, channels, actionsLogger, subsEngine, logFile, triggered>>
concVars == <<mutex, pc, call, applied>>
dispatchVars == <<engineMutex, dispatches, delivered>>
callerVars == <<held, returned>>
fileVars == <<disk>>
telnetVars == <<telnetConn, frame, printed, session>>
otherVars == <<clients, testActor, logged, dispatchVars, callerVars, fileVars, telnetVars>>
vars == <<users, channels, actionsLogger, subsEngine, logFile, triggered,
          lastCall, mutex, pc, call, applied, process, clients, testActor, logged,
          engineMutex, dispatches, delivered, held, returned, disk,
          telnetConn, frame, printed, session>>

----------------------------------------------------------------------------
(* Bounds *)

\* longest log file (records, the placeholder included) a logging store grows
MaxLog == 5
\* most messages stored over all channels
MaxMsgs == 1

----------------------------------------------------------------------------
(* Strings *)

SP == " "
Tab == "\\t"
Newline == "\\n"
BadByte == "\\xE9"
RuneError == "\\uFFFD"

Empty == << >>
Anonymous == <<"Anonymous">>
General == <<"General">>
alice == <<"alice">>
bob == <<"bob">>
dev == <<"dev">>

\* strings.Contains(s, " ")
ContainsSpace(s) == \E i \in 1..Len(s) : s[i] = SP

\* json.Marshal of a string followed by json.Unmarshal: a JSON string is
\* valid UTF-8, so Marshal replaces every invalid byte by U+FFFD
JSONString(s) == [i \in 1..Len(s) |-> IF s[i] = BadByte THEN RuneError ELSE s[i]]

\* A time.Time is [wall |-> its instant, written as RFC 3339 text,
\*                   mono |-> whether it carries a monotonic clock reading]
WallClock == {"2020-01-12T10:00:00Z", "2020-01-12T10:00:01Z"}

\* time.Time.MarshalJSON writes the instant (RFC 3339 with nanoseconds); the
\* monotonic clock reading of a time.Now() value is not written
JSONTime(t) == <<t.wall>>

\* a time.Parse that takes any text
IsRFC3339Any(s) == TRUE

\* time.Parse(time.RFC3339, s) fails unless s is RFC 3339 text
IsRFC3339(s) == Len(s) = 1 /\ s[1] \in WallClock

\* time.Parse(time.RFC3339, s): the instant, without a monotonic reading
ParseTime(s) == [wall |-> s[1], mono |-> FALSE]

\* time.Time.Equal: the same instant
TimeEqual(t1, t2) == t1.wall = t2.wall

----------------------------------------------------------------------------
(* Slices *)

\* index of the first element equal to x, 0 when there is none
IndexOf(s, x) ==
    IF \E i \in 1..Len(s) : s[i] = x
    THEN CHOOSE i \in 1..Len(s) : s[i] = x /\ \A j \in 1..(i-1) : s[j] # x
    ELSE 0

\* append(s[:i], s[i+1:]...)
RemoveAt(s, i) == SubSeq(s, 1, i-1) \o SubSeq(s, i+1, Len(s))

NoDuplicates(s) == \A i, j \in 1..Len(s) : i # j => s[i] # s[j]

Elems(s) == {s[i] : i \in 1..Len(s)}

----------------------------------------------------------------------------
(* package actions: the Logger *)

\* JSON values as json.Unmarshal yields them in a map[string]interface{}
JStr(s) == [t |-> "string", v |-> s]
JObj(o) == [t |-> "object", v |-> o]
JNum == [t |-> "number", v |-> Empty]

\* the "{}" that NewLogger writes as the first element of the array
Placeholder == [f \in {} |-> JStr(Empty)]

\* an element of the file's array that is not a JSON object: a number, or
\* the text of a record cut short
NotAnObject == [t |-> "number", v |-> Empty]

\* NewLogger on a file that does not exist or is empty writes "[\n{}\n]"
NewLogFile == <<Placeholder>>

\* The Action envelope.  Action.Timestamp (time.Now() at logging) is written
\* to the file as well; no code reads it back and it is left out here.
ActionEnvelope(name) == JObj([Name |-> JStr(<<name>>)])

\* the records Logger's Actor methods marshal (json.Marshal of the structs)
CreateUserAction(username) ==
    [Action |-> ActionEnvelope("CreateUser"), Username |-> JStr(JSONString(username))]

DeleteUserAction(username) ==
    [Action |-> ActionEnvelope("DeleteUser"), Username |-> JStr(JSONString(username))]

BlockUserAction(username, usernameToBlock) ==
    [Action |-> ActionEnvelope("BlockUser"),
     Username |-> JStr(JSONString(username)),
     UsernameToBlock |-> JStr(JSONString(usernameToBlock))]

UnblockUserAction(username, usernameToUnblock) ==
    [Action |-> ActionEnvelope("UnblockUser"),
     Username |-> JStr(JSONString(username)),
     UsernameToUnblock |-> JStr(JSONString(usernameToUnblock))]

CreateChannelAction(channelname) ==
    [Action |-> ActionEnvelope("CreateChannel"), Channelname |-> JStr(JSONString(channelname))]

DeleteChannelAction(channelname) ==
    [Action |-> ActionEnvelope("DeleteChannel"), Channelname |-> JStr(JSONString(channelname))]

PostMessageAction(channelname, username, timestamp, text) ==
    [Action |-> ActionEnvelope("PostMessage"),
     Channelname |-> JStr(JSONString(channelname)),
     Username |-> JStr(JSONString(username)),
     Timestamp |-> JStr(JSONTime(timestamp)),
     Text |-> JStr(JSONString(text))]

\* Logger.commitAction: the record goes in front of the closing bracket
commitAction(file, action) == Append(file, action)

----------------------------------------------------------------------------
(* package model: the store.  A store value m is the record                *)
(* [users, channels, actionsLogger, subsEngine, logFile, triggered].       *)

\* a store that never calls its logger
HandleLoggingNever(m, action) == m

\* "Handle logging": if m.actionsLogger != nil { m.actionsLogger.X(...) }
HandleLogging(m, action) ==
    IF m.actionsLogger
    THEN [m EXCEPT !.logFile = commitAction(@, action)]
    ELSE m

\* a store that never calls its subscription engine
HandleSubscriptionsNever(m, trigger) == m

\* "Handle subscriptions": if m.subsEngine != nil { m.subsEngine.X(...) }
HandleSubscriptions(m, trigger) ==
    IF m.subsEngine
    THEN [m EXCEPT !.triggered = Append(@, trigger)]
    ELSE m

UsersChanged == <<"UsersChanged">>
UserChanged(username) == <<"UserChanged", username>>
ChannelsChanged == <<"ChannelsChanged">>
ChannelChanged(channelname) == <<"ChannelChanged", channelname>>

\* the outcome of a call's checks when none of its early returns is taken
Accepted == "accepted"

\* m.users[username] = &newUser
PutEntry(map, key, value) ==
    [k \in DOMAIN map \cup {key} |-> IF k = key THEN value ELSE map[k]]

\* delete(map, key)
DeleteEntry(map, key) == [k \in DOMAIN map \ {key} |-> map[k]]

\* CreateUser without the early return for an existing user
CreateUserChecksAgain(m, username) ==
    IF username = Empty THEN "empty name"
    ELSE IF ContainsSpace(username) THEN "space in name"
    ELSE Accepted

\* CreateUser: the early returns
CreateUserChecks(m, username) ==
    IF username \in DOMAIN m.users THEN "user exists"
    ELSE IF username = Empty THEN "empty name"
    ELSE IF ContainsSpace(username) THEN "space in name"
    ELSE Accepted

\* CreateUser: "Add the new user"
CreateUserUpdate(m, username) ==
    [m EXCEPT !.users = PutEntry(@, username, << >>)]

CreateUser(m, username) ==
    IF CreateUserChecks(m, username) # Accepted THEN m
    ELSE HandleSubscriptions(
             HandleLogging(CreateUserUpdate(m, username), CreateUserAction(username)),
             UsersChanged)

\* DeleteUser without the early return for "Anonymous"
DeleteUserChecksAnyUser(m, username) ==
    IF username \notin DOMAIN m.users THEN "unknown user"
    ELSE Accepted

\* DeleteUser: the early returns
DeleteUserChecks(m, username) ==
    IF username \notin DOMAIN m.users THEN "unknown user"
    ELSE IF username = Anonymous THEN "Anonymous"
    ELSE Accepted

\* a DeleteUser that removes the user's messages from the channels as well
DeleteUserUpdateWithMessages(m, username) ==
    [m EXCEPT !.users = DeleteEntry(@, username),
              !.channels = [c \in DOMAIN @ |->
                               SelectSeq(@[c], LAMBDA message : message.Username # username)]]

\* DeleteUser without the loop over the other users' blockedUsers lists
DeleteUserUpdateNoCascade(m, username) ==
    [m EXCEPT !.users = DeleteEntry(@, username)]

\* DeleteUser: "Remove the user" and "Remove the user from all other users'
\* blockedUsers list" (the first occurrence, if any)
DeleteUserUpdate(m, username) ==
    LET remaining == DeleteEntry(m.users, username)
    IN  [m EXCEPT !.users =
            [u \in DOMAIN remaining |->
                LET removalIndex == IndexOf(remaining[u], username)
                IN  IF removalIndex # 0
                    THEN RemoveAt(remaining[u], removalIndex)
                    ELSE remaining[u]]]

DeleteUser(m, username) ==
    IF DeleteUserChecks(m, username) # Accepted THEN m
    ELSE HandleSubscriptions(
             HandleLogging(DeleteUserUpdate(m, username), DeleteUserAction(username)),
             UsersChanged)

\* BlockUser: the early returns
BlockUserChecks(m, username, usernameToBlock) ==
    IF username \notin DOMAIN m.users THEN "unknown user"
    ELSE IF usernameToBlock \notin DOMAIN m.users THEN "unknown target"
    ELSE IF username = Anonymous THEN "Anonymous"
    ELSE IF username = usernameToBlock THEN "self"
    ELSE Accepted

\* BlockUser appending without looking for the username
BlockUserUpdateAlways(m, username, usernameToBlock) ==
    [m EXCEPT !.users[username] = Append(@, usernameToBlock)]

\* BlockUser: "add the username if new"
BlockUserUpdate(m, username, usernameToBlock) ==
    LET found == IndexOf(m.users[username], usernameToBlock) # 0
    IN  IF ~found
        THEN [m EXCEPT !.users[username] = Append(@, usernameToBlock)]
        ELSE m

BlockUser(m, username, usernameToBlock) ==
    IF BlockUserChecks(m, username, usernameToBlock) # Accepted THEN m
    ELSE HandleSubscriptions(
             HandleLogging(BlockUserUpdate(m, username, usernameToBlock),
                           BlockUserAction(username, usernameToBlock)),
             UserChanged(username))

\* UnblockUser: the early returns
UnblockUserChecks(m, username, usernameToUnblock) ==
    IF username \notin DOMAIN m.users THEN "unknown user"
    ELSE IF usernameToUnblock \notin DOMAIN m.users THEN "unknown target"
    ELSE Accepted

\* UnblockUser: remove the first occurrence, if any
UnblockUserUpdate(m, username, usernameToUnblock) ==
    LET foundIndex == IndexOf(m.users[username], usernameToUnblock)
    IN  IF foundIndex # 0
        THEN [m EXCEPT !.users[username] = RemoveAt(@, foundIndex)]
        ELSE m

UnblockUser(m, username, usernameToUnblock) ==
    IF UnblockUserChecks(m, username, usernameToUnblock) # Accepted THEN m
    ELSE HandleSubscriptions(
             HandleLogging(UnblockUserUpdate(m, username, usernameToUnblock),
                           UnblockUserAction(username, usernameToUnblock)),
             UserChanged(username))

\* CreateChannel: the early returns
CreateChannelChecks(m, channelname) ==
    IF channelname \in DOMAIN m.channels THEN "channel exists"
    ELSE IF channelname = Empty THEN "empty name"
    ELSE IF ContainsSpace(channelname) THEN "space in name"
    ELSE Accepted

\* CreateChannel adding nothing
CreateChannelUpdateNothing(m, channelname) == m

\* CreateChannel: "Add the channel"
CreateChannelUpdate(m, channelname) ==
    [m EXCEPT !.channels = PutEntry(@, channelname, << >>)]

CreateChannel(m, channelname) ==
    IF CreateChannelChecks(m, channelname) # Accepted THEN m
    ELSE HandleSubscriptions(
             HandleLogging(CreateChannelUpdate(m, channelname),
                           CreateChannelAction(channelname)),
             ChannelsChanged)

\* DeleteChannel: the early returns
DeleteChannelChecks(m, channelname) ==
    IF channelname \notin DOMAIN m.channels THEN "unknown channel"
    ELSE IF channelname = General THEN "General"
    ELSE Accepted

\* DeleteChannel: "Remove the channel"
DeleteChannelUpdate(m, channelname) ==
    [m EXCEPT !.channels = DeleteEntry(@, channelname)]

DeleteChannel(m, channelname) ==
    IF DeleteChannelChecks(m, channelname) # Accepted THEN m
    ELSE HandleSubscriptions(
             HandleLogging(DeleteChannelUpdate(m, channelname),
                           DeleteChannelAction(channelname)),
             ChannelsChanged)

\* PostMessage without the early return for an empty text
PostMessageChecksAnyText(m, channelname, username, text) ==
    IF channelname \notin DOMAIN m.channels THEN "unknown channel"
    ELSE IF username \notin DOMAIN m.users THEN "unknown user"
    ELSE Accepted

\* PostMessage: the early returns
PostMessageChecks(m, channelname, username, text) ==
    IF channelname \notin DOMAIN m.channels THEN "unknown channel"
    ELSE IF username \notin DOMAIN m.users THEN "unknown user"
    ELSE IF Len(text) = 0 THEN "empty text"
    ELSE Accepted

\* a PostMessage that puts the new message in front of the others
PostMessageUpdateInFront(m, channelname, username, timestamp, text) ==
    LET newMessage == [Username |-> username, Timestamp |-> timestamp, Text |-> text]
    IN  [m EXCEPT !.channels[channelname] = <<newMessage>> \o @]

\* PostMessage: "Add the new message to the channel"
PostMessageUpdate(m, channelname, username, timestamp, text) ==
    LET newMessage == [Username |-> username, Timestamp |-> timestamp, Text |-> text]
    IN  [m EXCEPT !.channels[channelname] = Append(@, newMessage)]

PostMessage(m, channelname, username, timestamp, text) ==
    IF PostMessageChecks(m, channelname, username, text) # Accepted THEN m
    ELSE HandleSubscriptions(
             HandleLogging(PostMessageUpdate(m, channelname, username, timestamp, text),
                           PostMessageAction(channelname, username, timestamp, text)),
             ChannelChanged(channelname))

\* GetChannelHistory working out the window as if numMessages were -1
startingMessageIndexAll(length, numMessages) == 0

\* GetChannelHistory: "Figure out which message to start copying from" (an
\* index counted from 0); numMessages -1 stands for all messages
startingMessageIndex(length, numMessages) ==
    IF numMessages = -1 THEN 0
    ELSE IF length - numMessages < 0 THEN 0
    ELSE length - numMessages

\* GetChannelHistory taking no message as one from a blocked user
fromBlockedUserNever(message, blockedUsers) == FALSE

\* GetChannelHistory: the inner loop over user.BlockedUsers
fromBlockedUser(message, blockedUsers) ==
    \E j \in 1..Len(blockedUsers) : message.Username = blockedUsers[j]

\* GetChannelHistory: "Copy messages", the loop from index i (counted from 0)
RECURSIVE CopyMessages(_, _, _)
CopyMessages(channelMessages, i, blockedUsers) ==
    IF i >= Len(channelMessages) THEN << >>
    ELSE (IF ~fromBlockedUser(channelMessages[i + 1], blockedUsers)
          THEN <<channelMessages[i + 1]>>
          ELSE << >>)
         \o CopyMessages(channelMessages, i + 1, blockedUsers)

\* GetChannelHistory: the messages it returns
GetChannelHistory(m, channelname, username, numMessages) ==
    IF channelname \notin DOMAIN m.channels THEN << >>
    ELSE IF username \notin DOMAIN m.users THEN << >>
    ELSE CopyMessages(m.channels[channelname],
                      startingMessageIndex(Len(m.channels[channelname]), numMessages),
                      m.users[username])

----------------------------------------------------------------------------
(* package actions: the Replayer.  The actor m is a store value or a        *)
(* TestActor value [Actions |-> the calls made on it]; a parse function    *)
(* yields [err |-> the error or Nil, m |-> the actor afterwards].          *)

Nil == "nil"

\* the Actor of the actions tests: it appends every call to its Actions
NewTestActor == [Actions |-> << >>]

TestActorCreateUser(t, username) ==
    [t EXCEPT !.Actions = Append(@, [Type |-> "CreateUserAction", Username |-> username])]

TestActorDeleteUser(t, username) ==
    [t EXCEPT !.Actions = Append(@, [Type |-> "DeleteUserAction", Username |-> username])]

TestActorBlockUser(t, username, usernameToBlock) ==
    [t EXCEPT !.Actions = Append(@, [Type |-> "BlockUserAction", Username |-> username,
                                     UsernameToBlock |-> usernameToBlock])]

TestActorUnblockUser(t, username, usernameToUnblock) ==
    [t EXCEPT !.Actions = Append(@, [Type |-> "UnblockUserAction", Username |-> username,
                                     UsernameToUnblock |-> usernameToUnblock])]

TestActorCreateChannel(t, channelname) ==
    [t EXCEPT !.Actions = Append(@, [Type |-> "CreateChannelAction", Channelname |-> channelname])]

TestActorDeleteChannel(t, channelname) ==
    [t EXCEPT !.Actions = Append(@, [Type |-> "DeleteChannelAction", Channelname |-> channelname])]

TestActorPostMessage(t, channelname, username, timestamp, text) ==
    [t EXCEPT !.Actions = Append(@, [Type |-> "PostMessageAction", Channelname |-> channelname,
                                     Username |-> username, Timestamp |-> timestamp,
                                     Text |-> text])]

\* the dynamic type of an Actor value
IsTestActor(actor) == "Actions" \in DOMAIN actor

\* r.actor.X(...): a call through the Actor interface
ActorCreateUser(actor, username) ==
    IF IsTestActor(actor) THEN TestActorCreateUser(actor, username)
    ELSE CreateUser(actor, username)

ActorDeleteUser(actor, username) ==
    IF IsTestActor(actor) THEN TestActorDeleteUser(actor, username)
    ELSE DeleteUser(actor, username)

ActorBlockUser(actor, username, usernameToBlock) ==
    IF IsTestActor(actor) THEN TestActorBlockUser(actor, username, usernameToBlock)
    ELSE BlockUser(actor, username, usernameToBlock)

ActorUnblockUser(actor, username, usernameToUnblock) ==
    IF IsTestActor(actor) THEN TestActorUnblockUser(actor, username, usernameToUnblock)
    ELSE UnblockUser(actor, username, usernameToUnblock)

ActorCreateChannel(actor, channelname) ==
    IF IsTestActor(actor) THEN TestActorCreateChannel(actor, channelname)
    ELSE CreateChannel(actor, channelname)

ActorDeleteChannel(actor, channelname) ==
    IF IsTestActor(actor) THEN TestActorDeleteChannel(actor, channelname)
    ELSE DeleteChannel(actor, channelname)

ActorPostMessage(actor, channelname, username, timestamp, text) ==
    IF IsTestActor(actor) THEN TestActorPostMessage(actor, channelname, username, timestamp, text)
    ELSE PostMessage(actor, channelname, username, timestamp, text)

Parsed(m) == [err |-> Nil, m |-> m]
Failed(m, err) == [err |-> err, m |-> m]

\* _, ok := (*action)[field] followed by (*action)[field].(string)
HasString(action, field) == field \in DOMAIN action /\ action[field].t = "string"

parseCreateUser(action, m) ==
    IF ~HasString(action, "Username") THEN Failed(m, "CreateUser - Username")
    ELSE Parsed(ActorCreateUser(m, action.Username.v))

parseDeleteUser(action, m) ==
    IF ~HasString(action, "Username") THEN Failed(m, "DeleteUser - Username")
    ELSE Parsed(ActorDeleteUser(m, action.Username.v))

parseBlockUser(action, m) ==
    IF ~HasString(action, "Username") THEN Failed(m, "BlockUser - Username")
    ELSE IF ~HasString(action, "UsernameToBlock") THEN Failed(m, "BlockUser - UsernameToBlock")
    ELSE Parsed(ActorBlockUser(m, action.Username.v, action.UsernameToBlock.v))

parseUnblockUser(action, m) ==
    IF ~HasString(action, "Username") THEN Failed(m, "UnblockUser - Username")
    ELSE IF ~HasString(action, "UsernameToUnblock") THEN Failed(m, "UnblockUser - UsernameToUnblock")
    ELSE Parsed(ActorUnblockUser(m, action.Username.v, action.UsernameToUnblock.v))

parseCreateChannel(action, m) ==
    IF ~HasString(action, "Channelname") THEN Failed(m, "CreateChannel - Channelname")
    ELSE Parsed(ActorCreateChannel(m, action.Channelname.v))

parseDeleteChannel(action, m) ==
    IF ~HasString(action, "Channelname") THEN Failed(m, "DeleteChannel - Channelname")
    ELSE Parsed(ActorDeleteChannel(m, action.Channelname.v))

parsePostMessage(action, m) ==
    IF ~HasString(action, "Channelname") THEN Failed(m, "PostMessage - Channelname")
    ELSE IF ~HasString(action, "Username") THEN Failed(m, "PostMessage - Username")
    ELSE IF ~HasString(action, "Timestamp") THEN Failed(m, "PostMessage - Timestamp")
    ELSE IF ~IsRFC3339(action.Timestamp.v) THEN Failed(m, "PostMessage - time.Parse")
    ELSE IF ~HasString(action, "Text") THEN Failed(m, "PostMessage - Text")
    ELSE Parsed(ActorPostMessage(m, action.Channelname.v, action.Username.v,
                                 ParseTime(action.Timestamp.v), action.Text.v))

\* Replayer.parseAction.  The type assertion (*action)["Action"].(map[...])
\* has no ok form: on an Action that is not an object it panics.
parseAction(action, m) ==
    IF "Action" \notin DOMAIN action THEN Failed(m, "action not found")
    ELSE IF action.Action.t # "object" THEN Failed(m, "panic")
    ELSE LET actionStruct == action.Action.v
         IN  IF "Name" \notin DOMAIN actionStruct THEN Failed(m, "name not found")
             ELSE IF actionStruct.Name.t # "string" THEN Failed(m, "name not string")
             ELSE LET actionName == actionStruct.Name.v
                  IN  CASE actionName = <<"CreateUser">> -> parseCreateUser(action, m)
                        [] actionName = <<"DeleteUser">> -> parseDeleteUser(action, m)
                        [] actionName = <<"BlockUser">> -> parseBlockUser(action, m)
                        [] actionName = <<"UnblockUser">> -> parseUnblockUser(action, m)
                        [] actionName = <<"CreateChannel">> -> parseCreateChannel(action, m)
                        [] actionName = <<"DeleteChannel">> -> parseDeleteChannel(action, m)
                        [] actionName = <<"PostMessage">> -> parsePostMessage(action, m)
                        [] OTHER -> Failed(m, "unknown action")

\* Replayer.Replay: the loop over the parsed array, from entry i on
RECURSIVE ReplayFrom(_, _, _)
ReplayFrom(file, i, m) ==
    IF i > Len(file) THEN Parsed(m)
    ELSE IF DOMAIN file[i] = {} THEN ReplayFrom(file, i + 1, m)
    ELSE LET r == parseAction(file[i], m)
         IN  IF r.err # Nil THEN r ELSE ReplayFrom(file, i + 1, r.m)

\* json.Unmarshal(wholeFile, &result) with result []map[string]interface{}:
\* it fails unless every element of the array is a JSON object
IsJSONObject(element) == element # NotAnObject

Unmarshals(file) == \A i \in 1..Len(file) : IsJSONObject(file[i])

Replay(file, m) ==
    IF ~Unmarshals(file) THEN Failed(m, "malformed json")
    ELSE ReplayFrom(file, 1, m)

----------------------------------------------------------------------------
(* NewModel *)

\* "return nil, err": no store; the log file and the calls made on the
\* subscription engine are what they are
NoModel(m) == [m EXCEPT !.users = << >>, !.channels = << >>]

\* NewModel replaying with the logger and the subscription engine left in
\* place
NewModelReplayingAloud(actionsReplayer, logger, subs, file) ==
    LET model == [users |-> << >>, channels |-> << >>,
                  actionsLogger |-> logger, subsEngine |-> subs,
                  logFile |-> file, triggered |-> << >>]
    IN  IF ~actionsReplayer
        THEN Parsed(CreateChannel(CreateUser(model, Anonymous), General))
        ELSE Replay(file, model)

\* NewModel(actionsReplayer, actionsLogger, subsEngine): the three arguments
\* say whether the pointer is non-nil; file is the log file at that moment.
\* The result is [err |-> the error or Nil, m |-> the store].
NewModel(actionsReplayer, logger, subs, file) ==
    LET model == [users |-> << >>, channels |-> << >>,
                  actionsLogger |-> logger, subsEngine |-> subs,
                  logFile |-> file, triggered |-> << >>]
    IN  IF ~actionsReplayer
        THEN Parsed(CreateChannel(CreateUser(model, Anonymous), General))
        ELSE LET r == Replay(file, [model EXCEPT !.actionsLogger = FALSE,
                                                  !.subsEngine = FALSE])
             IN  IF r.err # Nil THEN Failed(NoModel(r.m), r.err)
                 ELSE Parsed([r.m EXCEPT !.actionsLogger = logger,
                                         !.subsEngine = subs])

----------------------------------------------------------------------------
(* The running server: store calls made one at a time *)

\* the inputs of the calls
UserNames == {Empty, <<"a", SP, "b">>, Anonymous, alice, bob}
ChannelNames == {Empty, <<"c", SP, "d">>, General, dev}
Texts == {Empty, <<"hi">>, <<"caf", BadByte>>}
Timestamps == {[wall |-> "2020-01-12T10:00:00Z", mono |-> TRUE]}

Goroutines == {"g1", "g2"}
NoOne == "none"
NoCall == << >>
\* dispatch goroutines are numbered from 1, in the order of their triggers
NoDispatch == 0
\* os.Stat answers os.IsNotExist: there is no file at the path
NoFile == <<"no file">>

\* no telnet connection yet
NoTelnet ==
    /\ telnetConn = NoCall
    /\ frame = NoCall
    /\ printed = << >>
    /\ session = NoCall

\* the store, its log file and the SubsEngine calls of the last store call
World ==
    [users |-> users, channels |-> channels,
     actionsLogger |-> actionsLogger, subsEngine |-> subsEngine,
     logFile |-> logFile, triggered |-> triggered]

\* the store as a call finds it
Entry == [World EXCEPT !.triggered = << >>]

RECURSIVE SumLen(_, _)
SumLen(map, keys) ==
    IF keys = {} THEN 0
    ELSE LET k == CHOOSE x \in keys : TRUE
         IN  Len(map[k]) + SumLen(map, keys \ {k})

\* the bounds of the exploration
WithinBounds(m) ==
    /\ Len(m.logFile) <= MaxLog
    /\ SumLen(m.channels, DOMAIN m.channels) <= MaxMsgs

\* a store call c returns and leaves the store as m
Returns(m, c) ==
    /\ process = "serving"
    /\ users' = m.users
    /\ channels' = m.channels
    /\ actionsLogger' = m.actionsLogger
    /\ subsEngine' = m.subsEngine
    /\ logFile' = m.logFile
    /\ triggered' = m.triggered
    /\ lastCall' = c
    /\ UNCHANGED <<concVars, process, otherVars>>

\* the state after a store call c that leaves the store as m
Return(m, c) == WithinBounds(m) /\ Returns(m, c)

\* main with no log file yet (config.LogFilePath set, or "" for no logging):
\* NewLogger initializes the file and NewModel builds the default state
Init ==
    /\ \E logging \in BOOLEAN :
          LET m == NewModel(FALSE, logging, TRUE,
                            IF logging THEN NewLogFile ELSE << >>).m
          IN  /\ users = m.users
              /\ channels = m.channels
              /\ actionsLogger = m.actionsLogger
              /\ subsEngine = m.subsEngine
              /\ logFile = m.logFile
              /\ triggered = m.triggered
    /\ lastCall = <<"NewModel", Accepted>>
    /\ mutex = NoOne
    /\ pc = [g \in Goroutines |-> "idle"]
    /\ call = [g \in Goroutines |-> NoCall]
    /\ applied = << >>
    /\ process = "serving"
    /\ clients = {}
    /\ testActor = NewTestActor
    /\ logged = << >>
    /\ engineMutex = NoDispatch
    /\ dispatches = << >>
    /\ delivered = << >>
    /\ held = << >>
    /\ returned = NoCall
    /\ disk = NoFile
    /\ NoTelnet

CreateUserCall ==
    \E username \in UserNames :
        Return(CreateUser(Entry, username), <<"CreateUser", CreateUserChecks(Entry, username)>>)

DeleteUserCall ==
    \E username \in UserNames :
        Return(DeleteUser(Entry, username), <<"DeleteUser", DeleteUserChecks(Entry, username)>>)

BlockUserCall ==
    \E username, usernameToBlock \in UserNames :
        Return(BlockUser(Entry, username, usernameToBlock),
               <<"BlockUser", BlockUserChecks(Entry, username, usernameToBlock)>>)

UnblockUserCall ==
    \E username, usernameToUnblock \in UserNames :
        Return(UnblockUser(Entry, username, usernameToUnblock),
               <<"UnblockUser", UnblockUserChecks(Entry, username, usernameToUnblock)>>)

CreateChannelCall ==
    \E channelname \in ChannelNames :
        Return(CreateChannel(Entry, channelname), <<"CreateChannel", CreateChannelChecks(Entry, channelname)>>)

DeleteChannelCall ==
    \E channelname \in ChannelNames :
        Return(DeleteChannel(Entry, channelname), <<"DeleteChannel", DeleteChannelChecks(Entry, channelname)>>)

PostMessageCall ==
    \E channelname \in ChannelNames, username \in UserNames,
       timestamp \in Timestamps, text \in Texts :
        Return(PostMessage(Entry, channelname, username, timestamp, text),
               <<"PostMessage", PostMessageChecks(Entry, channelname, username, text)>>)

\* main going on to serve whatever NewModel returned
StartedWhatever(r) ==
    /\ users' = r.m.users
    /\ channels' = r.m.channels
    /\ actionsLogger' = TRUE
    /\ subsEngine' = TRUE
    /\ logFile' = r.m.logFile
    /\ triggered' = r.m.triggered
    /\ process' = "serving"
    /\ lastCall' = <<"Replay", IF r.err = Nil THEN Accepted ELSE r.err>>
    /\ UNCHANGED <<concVars, otherVars>>

\* main once NewModel has returned r: the store is served, or log.Fatal(err)
\* ends the process
Started(r) ==
    /\ users' = r.m.users
    /\ channels' = r.m.channels
    /\ actionsLogger' = TRUE
    /\ subsEngine' = TRUE
    /\ logFile' = r.m.logFile
    /\ triggered' = r.m.triggered
    /\ process' = (IF r.err = Nil THEN "serving" ELSE "exited")
    /\ lastCall' = <<"Replay", IF r.err = Nil THEN Accepted ELSE r.err>>
    /\ UNCHANGED <<concVars, otherVars>>

\* the server is stopped and started again with the same log file path: main
\* finds the file, creates the Replayer, creates the Logger (NewLogger leaves
\* a file that is not empty as it is) and calls NewModel with both
Restart ==
    /\ process = "serving"
    /\ actionsLogger
    /\ Started(NewModel(TRUE, TRUE, TRUE, logFile))

Next ==
    \/ CreateUserCall
    \/ DeleteUserCall
    \/ BlockUserCall
    \/ UnblockUserCall
    \/ CreateChannelCall
    \/ DeleteChannelCall
    \/ PostMessageCall
    \/ Restart

Spec == Init /\ [][Next]_vars

----------------------------------------------------------------------------
(* Properties of the store *)

\* what the queries can show of a store: the users with their blocked
\* lists, the channels with their messages, a timestamp being its instant
Observable(m) ==
    [users |-> m.users,
     channels |-> [c \in DOMAIN m.channels |->
                     [i \in 1..Len(m.channels[c]) |->
                        [Username |-> m.channels[c][i].Username,
                         Instant |-> m.channels[c][i].Timestamp.wall,
                         Text |-> m.channels[c][i].Text]]]]

\* the store that a restart builds from the log file: NewReplayer on the
\* file, NewLogger on the same file, NewModel with both
Restarted == NewModel(TRUE, TRUE, TRUE, logFile)

\* C1: replay determinism - at any moment of a logging store's life, a store
\* constructed by replaying its log file has the same users, blocked lists,
\* channels and message sequences as the live store.
C1_ReplayDeterminism ==
    actionsLogger =>
        /\ Restarted.err = Nil
        /\ Observable(Restarted.m) = Observable(World)

\* C2: user "Anonymous" and channel "General" exist in every state;
\* DeleteUser("Anonymous") and DeleteChannel("General") remove nothing, and
\* CreateUser("Anonymous") and CreateChannel("General") leave the existing
\* user and channel (with its messages) as they are.
C2_DefaultsAlwaysExist ==
    /\ Anonymous \in DOMAIN users
    /\ General \in DOMAIN channels
    /\ Observable(DeleteUser(World, Anonymous)) = Observable(World)
    /\ Observable(DeleteChannel(World, General)) = Observable(World)
    /\ Observable(CreateUser(World, Anonymous)) = Observable(World)
    /\ Observable(CreateChannel(World, General)) = Observable(World)

\* DeleteUser("Anonymous") has just been refused on a store whose General
\* channel holds a message
C2_Witness ==
    /\ lastCall = <<"DeleteUser", "Anonymous">>
    /\ Len(channels[General]) > 0

\* C5: a call that fails validation changes nothing: users, blocked lists,
\* channels, messages, the log file and the notifications stay as they were.
C5_RejectedCallIsNoOp ==
    /\ CreateUser(World, Empty) = World
    /\ CreateChannel(World, Empty) = World
    /\ DeleteUser(World, Anonymous) = World
    /\ DeleteChannel(World, General) = World
    /\ \A channelname \in ChannelNames, username \in UserNames,
          timestamp \in Timestamps, text \in Texts :
            (\/ channelname \notin DOMAIN channels
             \/ username \notin DOMAIN users
             \/ text = Empty)
            => PostMessage(World, channelname, username, timestamp, text) = World

\* a PostMessage with an empty text has just been refused by a logging store
\* that holds a message already
C5_Witness ==
    /\ lastCall = <<"PostMessage", "empty text">>
    /\ actionsLogger
    /\ Len(channels[General]) > 0

\* number of records of the log file equal to the given record
RECURSIVE CountRecords(_, _)
CountRecords(file, action) ==
    IF file = << >> THEN 0
    ELSE (IF Head(file) = action THEN 1 ELSE 0) + CountRecords(Tail(file), action)

\* C6: creating a user or channel that exists, or deleting one that does not
\* exist, changes neither the state nor the log; the log of a logging store
\* therefore holds one more CreateUser(n) than DeleteUser(n) records exactly
\* when n is a user (likewise for channels).
C6_Idempotence ==
    /\ \A username \in DOMAIN users : CreateUser(World, username) = World
    /\ \A username \in UserNames \ DOMAIN users : DeleteUser(World, username) = World
    /\ \A channelname \in DOMAIN channels : CreateChannel(World, channelname) = World
    /\ \A channelname \in ChannelNames \ DOMAIN channels :
            DeleteChannel(World, channelname) = World
    /\ actionsLogger =>
        /\ \A username \in UserNames :
              CountRecords(logFile, CreateUserAction(username))
                - CountRecords(logFile, DeleteUserAction(username))
              = (IF username \in DOMAIN users THEN 1 ELSE 0)
        /\ \A channelname \in ChannelNames :
              CountRecords(logFile, CreateChannelAction(channelname))
                - CountRecords(logFile, DeleteChannelAction(channelname))
              = (IF channelname \in DOMAIN channels THEN 1 ELSE 0)

\* CreateUser of an existing user has just been refused by a logging store
\* in which bob exists
C6_Witness ==
    /\ lastCall = <<"CreateUser", "user exists">>
    /\ actionsLogger
    /\ bob \in DOMAIN users

\* C7: BlockUser(who, target) and UnblockUser(who, target) change nothing
\* (state, log, notifications) when who or target is not a user, who equals
\* target, or who is "Anonymous".
C7_BlockUnblockRejected ==
    \A who, target \in UserNames :
        (\/ who \notin DOMAIN users
         \/ target \notin DOMAIN users
         \/ who = target
         \/ who = Anonymous)
        => /\ BlockUser(World, who, target) = World
           /\ UnblockUser(World, who, target) = World

\* C8: BlockUser of a user already blocked and UnblockUser of a user not
\* blocked leave the blocked list as it is and append nothing to the log
\* (stated for who # target and who # "Anonymous", the calls C7 leaves).
C8_BlockUnblockIdempotent ==
    \A who \in DOMAIN users \ {Anonymous} : \A target \in DOMAIN users \ {who} :
        /\ IndexOf(users[who], target) # 0 =>
              /\ BlockUser(World, who, target).users = users
              /\ BlockUser(World, who, target).logFile = logFile
        /\ IndexOf(users[who], target) = 0 =>
              /\ UnblockUser(World, who, target).users = users
              /\ UnblockUser(World, who, target).logFile = logFile

\* s without the elements equal to x, the order of the others kept
RECURSIVE Without(_, _)
Without(s, x) ==
    IF s = << >> THEN << >>
    ELSE (IF Head(s) = x THEN << >> ELSE <<Head(s)>>) \o Without(Tail(s), x)

\* C9: after an accepted DeleteUser(U), U is not a user, the other users are
\* the users as before, U is in none of their blocked lists and the other
\* entries of those lists are kept, in their order.
C9_DeletionCascade ==
    \A U \in DOMAIN users \ {Anonymous} :
        LET after == DeleteUser(World, U).users
        IN  /\ DOMAIN after = DOMAIN users \ {U}
            /\ \A X \in DOMAIN after :
                  /\ U \notin Elems(after[X])
                  /\ after[X] = Without(users[X], U)

\* a user blocks two others, of which one can be deleted
C9_Witness ==
    \E X \in DOMAIN users, U \in DOMAIN users \ {Anonymous} :
        /\ Len(users[X]) = 2
        /\ U \in Elems(users[X])

\* C10: every blocked list is free of duplicates, does not hold its owner,
\* holds only existing users, and the list of "Anonymous" is empty.
C10_BlockedListsWellFormed ==
    /\ \A X \in DOMAIN users :
          /\ NoDuplicates(users[X])
          /\ X \notin Elems(users[X])
          /\ Elems(users[X]) \subseteq DOMAIN users
    /\ users[Anonymous] = << >>

\* a DeleteUser has just been accepted and a remaining user still blocks
\* someone
C10_Witness ==
    /\ lastCall = <<"DeleteUser", Accepted>>
    /\ \E X \in DOMAIN users : users[X] # << >>

\* a record of the given kind whose payload fields are the given strings
LoggedRecord(kind, payload) ==
    [f \in {"Action"} \cup DOMAIN payload |->
        IF f = "Action" THEN JObj([Name |-> JStr(<<kind>>)]) ELSE JStr(payload[f])]

\* the log file after the call that leaves the store as m, against the file
\* expected: one more record, of the kind and with the arguments of the call,
\* if the call was accepted, and the file as it was if not
LogsExactly(m, outcome, kind, payload) ==
    m.logFile = (IF outcome = Accepted
                 THEN Append(logFile, LoggedRecord(kind, payload))
                 ELSE logFile)

\* C13: in a logging store every accepted mutation appends one record, whose
\* kind is the name of the mutation and whose payload fields are the
\* arguments of the call (the timestamp as its instant); a call that is not
\* accepted appends nothing.
C13_OneRecordPerAcceptedMutation ==
    actionsLogger =>
        /\ \A username \in UserNames :
              /\ LogsExactly(CreateUser(World, username), CreateUserChecks(World, username),
                             "CreateUser", [Username |-> username])
              /\ LogsExactly(DeleteUser(World, username), DeleteUserChecks(World, username),
                             "DeleteUser", [Username |-> username])
        /\ \A who, target \in UserNames :
              /\ LogsExactly(BlockUser(World, who, target), BlockUserChecks(World, who, target),
                             "BlockUser", [Username |-> who, UsernameToBlock |-> target])
              /\ LogsExactly(UnblockUser(World, who, target),
                             UnblockUserChecks(World, who, target),
                             "UnblockUser", [Username |-> who, UsernameToUnblock |-> target])
        /\ \A channelname \in ChannelNames :
              /\ LogsExactly(CreateChannel(World, channelname),
                             CreateChannelChecks(World, channelname),
                             "CreateChannel", [Channelname |-> channelname])
              /\ LogsExactly(DeleteChannel(World, channelname),
                             DeleteChannelChecks(World, channelname),
                             "DeleteChannel", [Channelname |-> channelname])
        /\ \A channelname \in ChannelNames, username \in UserNames,
              timestamp \in Timestamps, text \in Texts :
                LogsExactly(PostMessage(World, channelname, username, timestamp, text),
                            PostMessageChecks(World, channelname, username, text),
                            "PostMessage",
                            [Channelname |-> channelname, Username |-> username,
                             Timestamp |-> <<timestamp.wall>>, Text |-> text])

\* the SubsEngine calls of the call that leaves the store as m, against the
\* calls expected: the given one if the call was accepted, none if not
TriggersExactly(m, outcome, trigger) ==
    m.triggered = (IF outcome = Accepted THEN <<trigger>> ELSE << >>)

\* C14: every accepted mutation makes one call on the subscription engine:
\* CreateUser and DeleteUser call UsersChanged, BlockUser and
\* UnblockUser(who, _) call UserChanged(who), CreateChannel and DeleteChannel
\* call ChannelsChanged, PostMessage(c, ...) calls ChannelChanged(c); a call
\* that is not accepted makes none.
C14_OneTriggerPerAcceptedMutation ==
    /\ lastCall[1] \notin {"NewModel", "Replay"} =>
          Len(triggered) = (IF lastCall[2] = Accepted THEN 1 ELSE 0)
    /\ \A username \in UserNames :
          /\ TriggersExactly(CreateUser(Entry, username), CreateUserChecks(Entry, username),
                             <<"UsersChanged">>)
          /\ TriggersExactly(DeleteUser(Entry, username), DeleteUserChecks(Entry, username),
                             <<"UsersChanged">>)
    /\ \A who, target \in UserNames :
          /\ TriggersExactly(BlockUser(Entry, who, target), BlockUserChecks(Entry, who, target),
                             <<"UserChanged", who>>)
          /\ TriggersExactly(UnblockUser(Entry, who, target),
                             UnblockUserChecks(Entry, who, target),
                             <<"UserChanged", who>>)
    /\ \A channelname \in ChannelNames :
          /\ TriggersExactly(CreateChannel(Entry, channelname),
                             CreateChannelChecks(Entry, channelname), <<"ChannelsChanged">>)
          /\ TriggersExactly(DeleteChannel(Entry, channelname),
                             DeleteChannelChecks(Entry, channelname), <<"ChannelsChanged">>)
    /\ \A channelname \in ChannelNames, username \in UserNames,
          timestamp \in Timestamps, text \in Texts :
            TriggersExactly(PostMessage(Entry, channelname, username, timestamp, text),
                            PostMessageChecks(Entry, channelname, username, text),
                            <<"ChannelChanged", channelname>>)

\* an UnblockUser by alice has just been accepted and has called
\* UserChanged("alice") and nothing else
C14_Witness ==
    /\ lastCall = <<"UnblockUser", Accepted>>
    /\ triggered = <<UserChanged(alice)>>

\* C15: a store constructed without a replayer holds the user "Anonymous"
\* with an empty blocked list and the channel "General" without messages,
\* and nothing else; its construction logged CreateUser("Anonymous") and
\* then CreateChannel("General"), and called UsersChanged and then
\* ChannelsChanged, once each.
C15_FreshStore ==
    lastCall[1] = "NewModel" =>
        /\ users = [u \in {Anonymous} |-> << >>]
        /\ channels = [c \in {General} |-> << >>]
        /\ triggered = << <<"UsersChanged">>, <<"ChannelsChanged">> >>
        /\ actionsLogger =>
              logFile = <<Placeholder,
                          LoggedRecord("CreateUser", [Username |-> Anonymous]),
                          LoggedRecord("CreateChannel", [Channelname |-> General])>>

\* NewModel has just built a store with a logger and without a replayer
C15_Witness ==
    /\ lastCall = <<"NewModel", Accepted>>
    /\ actionsLogger
    /\ process = "serving"

\* C16: a construction by replay leaves the log file as it is and calls the
\* subscription engine not at all, however many records it replays; every
\* mutation accepted afterwards by the logging store appends a record and
\* calls the subscription engine.
C16_ReplayIsSilent ==
    [][/\ lastCall'[1] = "Replay" =>
            /\ logFile' = logFile
            /\ triggered' = << >>
       /\ (lastCall'[1] # "Replay" /\ lastCall'[2] = Accepted /\ actionsLogger') =>
            /\ Len(logFile') = Len(logFile) + 1
            /\ Len(triggered') = 1]_vars

\* a store rebuilt by replaying a log that holds a message (the timestamp of
\* a replayed message is a parsed one) has accepted a CreateUser afterwards
C16_Witness ==
    /\ lastCall = <<"CreateUser", Accepted>>
    /\ \E c \in DOMAIN channels :
          \E i \in 1..Len(channels[c]) : ~channels[c][i].Timestamp.mono
    /\ Len(logFile) = 5
    /\ Len(triggered) = 1

----------------------------------------------------------------------------
(* The running server: goroutines (one per connection) calling the store   *)
(* concurrently.  A store method is Lock, the early returns, the state     *)
(* change, the logger call, the subscription call and the deferred Unlock. *)

\* most state changes made by concurrent callers
MaxApplied == 3

\* the calls the goroutines make: <<method, name>>
ConcCalls ==
    {<<"CreateUser", alice>>, <<"DeleteUser", alice>>,
     <<"CreateChannel", dev>>, <<"DeleteChannel", dev>>}

\* the early returns of call c
CallChecks(m, c) ==
    CASE c[1] = "CreateUser" -> CreateUserChecks(m, c[2])
      [] c[1] = "DeleteUser" -> DeleteUserChecks(m, c[2])
      [] c[1] = "CreateChannel" -> CreateChannelChecks(m, c[2])
      [] c[1] = "DeleteChannel" -> DeleteChannelChecks(m, c[2])

\* the state change of call c
CallUpdate(m, c) ==
    CASE c[1] = "CreateUser" -> CreateUserUpdate(m, c[2])
      [] c[1] = "DeleteUser" -> DeleteUserUpdate(m, c[2])
      [] c[1] = "CreateChannel" -> CreateChannelUpdate(m, c[2])
      [] c[1] = "DeleteChannel" -> DeleteChannelUpdate(m, c[2])

\* the record the logger writes for call c
CallAction(c) ==
    CASE c[1] = "CreateUser" -> CreateUserAction(c[2])
      [] c[1] = "DeleteUser" -> DeleteUserAction(c[2])
      [] c[1] = "CreateChannel" -> CreateChannelAction(c[2])
      [] c[1] = "DeleteChannel" -> DeleteChannelAction(c[2])

\* the SubsEngine method call c invokes
CallTrigger(c) ==
    CASE c[1] \in {"CreateUser", "DeleteUser"} -> UsersChanged
      [] c[1] \in {"CreateChannel", "DeleteChannel"} -> ChannelsChanged

\* the store fields after a step that leaves the store as m
Store(m) ==
    /\ users' = m.users
    /\ channels' = m.channels
    /\ actionsLogger' = m.actionsLogger
    /\ subsEngine' = m.subsEngine
    /\ logFile' = m.logFile
    /\ triggered' = m.triggered

\* sync.Mutex.Lock returns only when no goroutine holds the mutex
LockNeverBlocks == TRUE
MutexUnlocked == mutex = NoOne

\* goroutine g is between m.mutex.Lock() and the deferred m.mutex.Unlock()
InCriticalSection(g) == pc[g] \in {"checks", "update", "logging", "subs", "Unlock"}

\* main with a log file path and no log file yet
InitConc == Init /\ actionsLogger

\* a connection's goroutine calls a store method
Begin(g) ==
    /\ pc[g] \in {"idle", "returned"}
    /\ Len(applied) + Cardinality({h \in Goroutines : pc[h] \notin {"idle", "returned"}})
         < MaxApplied
    /\ \E c \in ConcCalls : call' = [call EXCEPT ![g] = c]
    /\ pc' = [pc EXCEPT ![g] = "Lock"]
    /\ UNCHANGED <<storeVars, lastCall, mutex, applied, process, otherVars>>

\* m.mutex.Lock()
Lock(g) ==
    /\ pc[g] = "Lock"
    /\ MutexUnlocked
    /\ mutex' = g
    /\ pc' = [pc EXCEPT ![g] = "checks"]
    /\ UNCHANGED <<storeVars, lastCall, call, applied, process, otherVars>>

\* the early returns; the outcome is noted behind the call
Checks(g) ==
    /\ pc[g] = "checks"
    /\ LET outcome == CallChecks(World, call[g])
       IN  /\ call' = [call EXCEPT ![g] = Append(@, outcome)]
           /\ pc' = [pc EXCEPT ![g] = IF outcome = Accepted THEN "update" ELSE "Unlock"]
    /\ UNCHANGED <<storeVars, lastCall, mutex, applied, process, otherVars>>

\* the state change
Update(g) ==
    /\ pc[g] = "update"
    /\ Store(CallUpdate(World, call[g]))
    /\ applied' = Append(applied, SubSeq(call[g], 1, 2))
    /\ pc' = [pc EXCEPT ![g] = "logging"]
    /\ UNCHANGED <<lastCall, mutex, call, process, otherVars>>

\* if m.actionsLogger != nil { m.actionsLogger.X(...) }
Logging(g) ==
    /\ pc[g] = "logging"
    /\ Store(HandleLogging(World, CallAction(call[g])))
    /\ pc' = [pc EXCEPT ![g] = "subs"]
    /\ UNCHANGED <<lastCall, mutex, call, applied, process, otherVars>>

\* if m.subsEngine != nil { m.subsEngine.X(...) }
Subs(g) ==
    /\ pc[g] = "subs"
    /\ Store(HandleSubscriptions(World, CallTrigger(call[g])))
    /\ pc' = [pc EXCEPT ![g] = "Unlock"]
    /\ UNCHANGED <<lastCall, mutex, call, applied, process, otherVars>>

\* defer m.mutex.Unlock()
Unlock(g) ==
    /\ pc[g] = "Unlock"
    /\ mutex' = NoOne
    /\ pc' = [pc EXCEPT ![g] = "returned"]
    /\ UNCHANGED <<storeVars, lastCall, call, applied, process, otherVars>>

NextConc ==
    \E g \in Goroutines :
        \/ Begin(g)
        \/ Lock(g)
        \/ Checks(g)
        \/ Update(g)
        \/ Logging(g)
        \/ Subs(g)
        \/ Unlock(g)

SpecConc == InitConc /\ [][NextConc]_vars

\* the records after the placeholder and the two of NewModel
LoggedByCallers == SubSeq(logFile, 4, Len(logFile))

\* the notifications after the two of NewModel
TriggeredByCallers == SubSeq(triggered, 3, Len(triggered))

\* C3: with concurrent callers, the records of the log are the records of the
\* state changes in the order in which the changes were made; only the
\* change of the goroutine that holds the mutex and has not logged yet is
\* missing at the end.
C3_LogOrderIsApplyOrder ==
    /\ Len(LoggedByCallers) <= Len(applied)
    /\ \A i \in 1..Len(LoggedByCallers) : LoggedByCallers[i] = CallAction(applied[i])
    /\ Len(LoggedByCallers) < Len(applied) =>
          /\ Len(LoggedByCallers) = Len(applied) - 1
          /\ \E g \in Goroutines :
                /\ pc[g] = "logging"
                /\ SubSeq(call[g], 1, 2) = applied[Len(applied)]

\* a goroutine has made the second state change and not logged it yet, while
\* the other goroutine waits for the mutex
C3_Witness ==
    \E g, h \in Goroutines :
        /\ pc[g] = "logging"
        /\ pc[h] = "Lock"
        /\ Len(applied) = 2

\* number of elements of s equal to x
RECURSIVE Count(_, _)
Count(s, x) ==
    IF s = << >> THEN 0
    ELSE (IF Head(s) = x THEN 1 ELSE 0) + Count(Tail(s), x)

\* C4: store calls exclude each other, and of concurrent CreateUser (or
\* CreateChannel) calls with the same new name one is accepted: the name is
\* created once (creations and deletions of a name alternate), and every
\* state change is logged once and notified once.
C4_CallsAreAtomic ==
    /\ \A g, h \in Goroutines : g # h => ~(InCriticalSection(g) /\ InCriticalSection(h))
    /\ Count(applied, <<"CreateUser", alice>>) - Count(applied, <<"DeleteUser", alice>>)
         = (IF alice \in DOMAIN users THEN 1 ELSE 0)
    /\ Count(applied, <<"CreateChannel", dev>>) - Count(applied, <<"DeleteChannel", dev>>)
         = (IF dev \in DOMAIN channels THEN 1 ELSE 0)
    /\ Len(applied) - Len(LoggedByCallers) \in {0, 1}
    /\ Len(LoggedByCallers) - Len(TriggeredByCallers) \in {0, 1}
    /\ \A i \in 1..Len(TriggeredByCallers) : TriggeredByCallers[i] = CallTrigger(applied[i])

\* a goroutine's CreateUser("alice") has been accepted and is about to
\* return, while the other goroutine's CreateUser("alice") waits for the
\* mutex
C4_Witness ==
    \E g, h \in Goroutines :
        /\ pc[g] = "Unlock"
        /\ call[g] = <<"CreateUser", alice, Accepted>>
        /\ pc[h] = "Lock"
        /\ call[h] = <<"CreateUser", alice>>

----------------------------------------------------------------------------
(* The running server without a log file path: users post to two channels  *)
(* and read the channel histories.                                         *)

\* most messages stored over all channels
MaxHist == 3

\* the inputs of the calls
HistUserNames == {Anonymous, alice, bob}
HistAuthors == {Anonymous, alice}
HistChannelNames == {General, dev}
HistTexts == {<<"hi">>, <<"yo">>}
HistNumMessages == (-1)..MaxHist

\* main with config.LogFilePath "": no Logger and no Replayer
InitHist == Init /\ ~actionsLogger

HistCreateUser ==
    Returns(CreateUser(Entry, alice), <<"CreateUser", CreateUserChecks(Entry, alice)>>)

HistDeleteUser ==
    Returns(DeleteUser(Entry, alice), <<"DeleteUser", DeleteUserChecks(Entry, alice)>>)

HistBlockUser ==
    \E username, usernameToBlock \in HistAuthors :
        Returns(BlockUser(Entry, username, usernameToBlock),
                <<"BlockUser", BlockUserChecks(Entry, username, usernameToBlock)>>)

HistUnblockUser ==
    \E username, usernameToUnblock \in HistAuthors :
        Returns(UnblockUser(Entry, username, usernameToUnblock),
                <<"UnblockUser", UnblockUserChecks(Entry, username, usernameToUnblock)>>)

HistCreateChannel ==
    Returns(CreateChannel(Entry, dev), <<"CreateChannel", CreateChannelChecks(Entry, dev)>>)

HistPostMessage ==
    \E channelname \in HistChannelNames, username \in HistAuthors,
       timestamp \in Timestamps, text \in HistTexts :
        LET m == PostMessage(Entry, channelname, username, timestamp, text)
        IN  /\ SumLen(m.channels, DOMAIN m.channels) <= MaxHist
            /\ Returns(m, <<"PostMessage",
                            PostMessageChecks(Entry, channelname, username, text)>>)

\* a query: the store stays as it is; the call is noted with its arguments
\* and the messages returned
GetChannelHistoryCall ==
    \E channelname \in HistChannelNames, username \in HistUserNames,
       numMessages \in HistNumMessages :
        Returns(Entry, <<"GetChannelHistory", <<channelname, username, numMessages>>,
                         GetChannelHistory(Entry, channelname, username, numMessages)>>)

NextHist ==
    \/ HistCreateUser
    \/ HistDeleteUser
    \/ HistBlockUser
    \/ HistUnblockUser
    \/ HistCreateChannel
    \/ HistPostMessage
    \/ GetChannelHistoryCall

SpecHist == InitHist /\ [][NextHist]_vars

\* the last call was GetChannelHistory(channelname, username, numMessages)
\* with an existing channel and an existing user
QueriedHistory(channelname, username, numMessages) ==
    /\ lastCall[1] = "GetChannelHistory"
    /\ lastCall[2] = <<channelname, username, numMessages>>
    /\ channelname \in DOMAIN channels
    /\ username \in DOMAIN users

\* the messages of s whose author is not in the blocked list, in their order
RECURSIVE NotBlocked(_, _)
NotBlocked(s, blocked) ==
    IF s = << >> THEN << >>
    ELSE (IF Head(s).Username \in Elems(blocked) THEN << >> ELSE <<Head(s)>>)
         \o NotBlocked(Tail(s), blocked)

\* the last min(n, Len(s)) elements of s
LastN(s, n) == SubSeq(s, Len(s) - (IF n < Len(s) THEN n ELSE Len(s)) + 1, Len(s))

\* C11: GetChannelHistory(c, u, -1) with c a channel and u a user returns
\* the messages of c in insertion order without those whose author is in
\* u's blocked list at the time of the query, whenever they were posted.
C11_FullHistoryFiltered ==
    \A c \in HistChannelNames, u \in HistUserNames :
        QueriedHistory(c, u, -1) => lastCall[3] = NotBlocked(channels[c], users[u])

\* the scenario of the specification: alice posted "hi" to dev, Anonymous
\* posted "yo", alice blocked Anonymous afterwards, and alice's query for
\* all messages returned her message alone
C11_Witness ==
    /\ QueriedHistory(dev, alice, -1)
    /\ users[alice] = <<Anonymous>>
    /\ Len(channels[dev]) = 2
    /\ channels[dev][1].Username = alice /\ channels[dev][1].Text = <<"hi">>
    /\ channels[dev][2].Username = Anonymous /\ channels[dev][2].Text = <<"yo">>
    /\ lastCall[3] = <<channels[dev][1]>>

\* C12: GetChannelHistory(c, u, n) with n >= 0 takes the last min(n, length)
\* messages of c and then removes those whose author u blocks, keeping the
\* order: the result has at most n messages.
C12_WindowThenFilter ==
    \A c \in HistChannelNames, u \in HistUserNames, n \in 0..MaxHist :
        QueriedHistory(c, u, n) =>
            /\ lastCall[3] = NotBlocked(LastN(channels[c], n), users[u])
            /\ Len(lastCall[3]) <= n

\* a query for the last 2 messages returned fewer than 2 although the
\* channel holds 2 messages of authors the user does not block
C12_Witness ==
    \E c \in HistChannelNames, u \in HistUserNames :
        /\ QueriedHistory(c, u, 2)
        /\ Len(lastCall[3]) < 2
        /\ Len(NotBlocked(channels[c], users[u])) >= 2

----------------------------------------------------------------------------
(* Start-up on a log file left by an earlier run, as the earlier run wrote *)
(* it or damaged afterwards.                                               *)

\* most records after the two of the first construction
MaxSuffix == 2

\* a record without field f
WithoutField(record, f) == [g \in DOMAIN record \ {f} |-> record[g]]

\* a record whose field f holds a number
WithNumber(record, f) == [record EXCEPT ![f] = JNum]

\* records as the Logger writes them
WellFormedRecords ==
    {CreateUserAction(alice), DeleteUserAction(alice),
     BlockUserAction(alice, Anonymous), UnblockUserAction(alice, Anonymous),
     CreateChannelAction(dev), DeleteChannelAction(dev)}
    \cup {PostMessageAction(General, Anonymous, t, <<"hi">>) : t \in Timestamps}

\* damaged records: a field missing, a field of another type, an envelope
\* without Name, a Name that is no string, an unknown Name, a Timestamp that
\* is no RFC 3339 text
DamagedRecords ==
    UNION {{WithoutField(r, f) : f \in DOMAIN r} : r \in WellFormedRecords}
    \cup UNION {{WithNumber(r, f) : f \in DOMAIN r} : r \in WellFormedRecords}
    \cup {[CreateUserAction(alice) EXCEPT !.Action = JObj(Placeholder)],
          [CreateUserAction(alice) EXCEPT !.Action = JObj([Name |-> JNum])],
          [CreateUserAction(alice) EXCEPT !.Action = ActionEnvelope("RenameUser")]}
    \cup {[r EXCEPT !.Timestamp = JStr(<<"yesterday">>)] :
             r \in {PostMessageAction(General, Anonymous, t, <<"hi">>) : t \in Timestamps}}

\* the elements a file can hold
FileElements == WellFormedRecords \cup DamagedRecords \cup {Placeholder, NotAnObject}

\* the files with at most n elements
RECURSIVE FilesUpTo(_)
FilesUpTo(n) ==
    IF n = 0 THEN {<< >>}
    ELSE LET shorter == FilesUpTo(n - 1)
         IN  shorter \cup {Append(file, e) : file \in shorter, e \in FileElements}

\* the log files found at start-up: what the first construction wrote,
\* followed by further elements
LogFiles ==
    {<<Placeholder, CreateUserAction(Anonymous), CreateChannelAction(General)>> \o suffix :
        suffix \in FilesUpTo(MaxSuffix)}

\* main starts with config.LogFilePath naming one of these files
InitReplay ==
    /\ logFile \in LogFiles
    /\ users = << >>
    /\ channels = << >>
    /\ actionsLogger = TRUE
    /\ subsEngine = TRUE
    /\ triggered = << >>
    /\ lastCall = <<"main", "starting">>
    /\ mutex = NoOne
    /\ pc = [g \in Goroutines |-> "idle"]
    /\ call = [g \in Goroutines |-> NoCall]
    /\ applied = << >>
    /\ process = "starting"
    /\ clients = {}
    /\ testActor = NewTestActor
    /\ logged = << >>
    /\ engineMutex = NoDispatch
    /\ dispatches = << >>
    /\ delivered = << >>
    /\ held = << >>
    /\ returned = NoCall
    /\ disk = NoFile
    /\ NoTelnet

\* main: NewReplayer and NewLogger on the file, then NewModel with both
StartUp ==
    /\ process = "starting"
    /\ Started(NewModel(TRUE, TRUE, TRUE, logFile))

NextReplay ==
    \/ StartUp
    \/ Next

SpecReplay == InitReplay /\ [][NextReplay]_vars

\* the kinds of action and the payload fields each of them requires
Kinds ==
    {"CreateUser", "DeleteUser", "BlockUser", "UnblockUser",
     "CreateChannel", "DeleteChannel", "PostMessage"}

RequiredFields(kind) ==
    CASE kind \in {"CreateUser", "DeleteUser"} -> {"Username"}
      [] kind = "BlockUser" -> {"Username", "UsernameToBlock"}
      [] kind = "UnblockUser" -> {"Username", "UsernameToUnblock"}
      [] kind \in {"CreateChannel", "DeleteChannel"} -> {"Channelname"}
      [] kind = "PostMessage" -> {"Channelname", "Username", "Timestamp", "Text"}

\* the record has an Action field that is not an object
ActionNotAnObject(record) ==
    "Action" \in DOMAIN record /\ record.Action.t # "object"

\* a record that is not empty and lacks the Action envelope, or names no
\* kind or an unknown one, or lacks a payload field its kind requires or
\* holds it with a value that is not a string (for Timestamp: not the text
\* of an instant)
StructurallyBad(record) ==
    /\ DOMAIN record # {}
    /\ ~ActionNotAnObject(record)
    /\ \/ "Action" \notin DOMAIN record
       \/ "Name" \notin DOMAIN record.Action.v
       \/ record.Action.v.Name.t # "string"
       \/ \A kind \in Kinds : record.Action.v.Name.v # <<kind>>
       \/ \E kind \in Kinds :
             /\ record.Action.v.Name.v = <<kind>>
             /\ \E f \in RequiredFields(kind) :
                   \/ f \notin DOMAIN record
                   \/ record[f].t # "string"
                   \/ f = "Timestamp" /\ record[f].v \notin {<<w>> : w \in WallClock}

\* every element of the file is an object
ValidSequence(file) == \A i \in 1..Len(file) : DOMAIN file[i] # DOMAIN NotAnObject

\* the first element of the file that Replay cannot dispatch, 0 if none
FirstBad(file) ==
    LET bad == {i \in 1..Len(file) : StructurallyBad(file[i]) \/ ActionNotAnObject(file[i])}
    IN  IF bad = {} THEN 0 ELSE CHOOSE i \in bad : \A j \in bad : i <= j

\* C17: when the replay fails at a record, start-up ends there: the process
\* exits with no store, whatever the records before the failing one did, and
\* the log file is as it was; a process that has exited takes no step, so
\* no partly replayed store is served or logged to.
C17_FailedReplayStopsStartUp ==
    [][/\ process # "exited"
       /\ (process = "starting" /\ Replay(logFile, NewTestActor).err # Nil) =>
            /\ process' = "exited"
            /\ users' = << >>
            /\ channels' = << >>
            /\ logFile' = logFile
            /\ triggered' = << >>]_vars

\* start-up has ended on a file whose fifth element is damaged and whose
\* fourth is a record that was replayed before
C17_Witness ==
    /\ process = "exited"
    /\ Len(logFile) = 5
    /\ logFile[4] \in WellFormedRecords
    /\ FirstBad(logFile) = 5
    /\ users = << >>

----------------------------------------------------------------------------
(* The Logger and the Replayer on their own, as the actions tests use      *)
(* them: calls are made on a Logger, then the file is replayed on a        *)
(* TestActor.                                                              *)

\* most calls made on the Logger
MaxLogged == 2

\* the inputs of the calls
RoundTripUserNames == {Empty, alice}
RoundTripChannelNames == {General}
RoundTripTexts == {<<"hi">>, <<"caf", BadByte>>}

\* NewLogger on a new temporary file
InitRoundTrip ==
    /\ logFile = NewLogFile
    /\ logged = << >>
    /\ testActor = NewTestActor
    /\ lastCall = <<"NewLogger", Accepted>>
    /\ process = "testing"
    /\ users = << >>
    /\ channels = << >>
    /\ actionsLogger = TRUE
    /\ subsEngine = FALSE
    /\ triggered = << >>
    /\ mutex = NoOne
    /\ pc = [g \in Goroutines |-> "idle"]
    /\ call = [g \in Goroutines |-> NoCall]
    /\ applied = << >>
    /\ clients = {}
    /\ engineMutex = NoDispatch
    /\ dispatches = << >>
    /\ delivered = << >>
    /\ held = << >>
    /\ returned = NoCall
    /\ disk = NoFile
    /\ NoTelnet

\* a call on the Logger commits the action; the call is noted as the
\* TestActor would note it
LoggerCall(action, made) ==
    /\ process = "testing"
    /\ Len(logged) < MaxLogged
    /\ logFile' = commitAction(logFile, action)
    /\ logged' = logged \o made.Actions
    /\ lastCall' = <<"Logger", Accepted>>
    /\ UNCHANGED <<users, channels, actionsLogger, subsEngine, triggered,
                   concVars, process, clients, testActor, dispatchVars, callerVars, fileVars, telnetVars>>

LoggerCreateUser ==
    \E username \in RoundTripUserNames :
        LoggerCall(CreateUserAction(username), TestActorCreateUser(NewTestActor, username))

LoggerDeleteUser ==
    \E username \in RoundTripUserNames :
        LoggerCall(DeleteUserAction(username), TestActorDeleteUser(NewTestActor, username))

LoggerBlockUser ==
    \E username, usernameToBlock \in RoundTripUserNames :
        LoggerCall(BlockUserAction(username, usernameToBlock),
                   TestActorBlockUser(NewTestActor, username, usernameToBlock))

LoggerUnblockUser ==
    \E username, usernameToUnblock \in RoundTripUserNames :
        LoggerCall(UnblockUserAction(username, usernameToUnblock),
                   TestActorUnblockUser(NewTestActor, username, usernameToUnblock))

LoggerCreateChannel ==
    \E channelname \in RoundTripChannelNames :
        LoggerCall(CreateChannelAction(channelname),
                   TestActorCreateChannel(NewTestActor, channelname))

LoggerDeleteChannel ==
    \E channelname \in RoundTripChannelNames :
        LoggerCall(DeleteChannelAction(channelname),
                   TestActorDeleteChannel(NewTestActor, channelname))

LoggerPostMessage ==
    \E channelname \in RoundTripChannelNames, username \in RoundTripUserNames,
       timestamp \in Timestamps, text \in RoundTripTexts :
        LoggerCall(PostMessageAction(channelname, username, timestamp, text),
                   TestActorPostMessage(NewTestActor, channelname, username, timestamp, text))

\* NewReplayer on the file and Replay on a new TestActor
ReplayOnTestActor ==
    /\ process = "testing"
    /\ LET r == Replay(logFile, NewTestActor)
       IN  /\ testActor' = r.m
           /\ lastCall' = <<"Replay", IF r.err = Nil THEN Accepted ELSE r.err>>
    /\ UNCHANGED <<storeVars, concVars, process, clients, logged, dispatchVars, callerVars, fileVars, telnetVars>>

NextRoundTrip ==
    \/ LoggerCreateUser
    \/ LoggerDeleteUser
    \/ LoggerBlockUser
    \/ LoggerUnblockUser
    \/ LoggerCreateChannel
    \/ LoggerDeleteChannel
    \/ LoggerPostMessage
    \/ ReplayOnTestActor

SpecRoundTrip == InitRoundTrip /\ [][NextRoundTrip]_vars

\* two noted calls are the same call: the same method and the same
\* arguments, a timestamp being its instant
SameCall(a, b) ==
    /\ DOMAIN a = DOMAIN b
    /\ \A f \in DOMAIN a \ {"Timestamp"} : a[f] = b[f]
    /\ "Timestamp" \in DOMAIN a => TimeEqual(a.Timestamp, b.Timestamp)

\* C18: replaying a file written by the Logger succeeds and makes on the
\* actor the calls that were made on the Logger: the same methods with the
\* same arguments in the same order, none added, dropped or repeated, the
\* placeholder skipped; whatever the calls were.
C18_RoundTrip ==
    lastCall[1] = "Replay" =>
        /\ lastCall[2] = Accepted
        /\ Len(testActor.Actions) = Len(logged)
        /\ \A i \in 1..Len(logged) : SameCall(testActor.Actions[i], logged[i])

----------------------------------------------------------------------------
(* package subs: the clients of the subscription engine.  A connection     *)
(* handler connects its client when the connection opens and disconnects   *)
(* it when the connection ends.                                            *)

\* the clients (one per connection)
Observers == {"o1", "o2", "o3", "o4"}

\* Connect registering the client whether or not it is there already
ConnectAnyway(engineClients, client) ==
    [err |-> Nil, clients |-> engineClients \cup {client}]

\* Engine.Connect once it holds the engine mutex: [err |-> the error or Nil,
\*                                        clients |-> Engine.clients afterwards]
Connect(engineClients, client) ==
    IF client \in engineClients
    THEN [err |-> "Client already exists", clients |-> engineClients]
    ELSE [err |-> Nil, clients |-> engineClients \cup {client}]

\* a Disconnect that forgets every client and never fails
DisconnectAnyway(engineClients, client) ==
    [err |-> Nil, clients |-> {}]

\* Engine.Disconnect under the engine mutex
Disconnect(engineClients, client) ==
    IF client \notin engineClients
    THEN [err |-> "Client doesn't exist", clients |-> engineClients]
    ELSE [err |-> Nil, clients |-> engineClients \ {client}]

\* main has created the engine (no clients) and the store
InitSubs == Init /\ ~actionsLogger

ConnectCall ==
    \E client \in Observers :
        LET r == Connect(clients, client)
        IN  /\ engineMutex = NoDispatch
            /\ clients' = r.clients
            /\ lastCall' = <<"Connect", client, r.err>>
            /\ UNCHANGED <<storeVars, concVars, process, testActor, logged, dispatchVars, callerVars, fileVars, telnetVars>>

DisconnectCall ==
    \E client \in Observers :
        LET r == Disconnect(clients, client)
        IN  /\ engineMutex = NoDispatch
            /\ clients' = r.clients
            /\ lastCall' = <<"Disconnect", client, r.err>>
            /\ UNCHANGED <<storeVars, concVars, process, testActor, logged, dispatchVars, callerVars, fileVars, telnetVars>>

NextSubs ==
    \/ ConnectCall
    \/ DisconnectCall

SpecSubs == InitSubs /\ [][NextSubs]_vars

\* C20: Connect(o) returns an error and leaves the connected clients as they
\* are if o is connected; otherwise it returns no error and o is connected
\* in addition to the others - also right after o was disconnected.
C20_Connect ==
    [][\A o \in Observers :
          (lastCall'[1] = "Connect" /\ lastCall'[2] = o) =>
              /\ o \in clients => (lastCall'[3] # Nil /\ clients' = clients)
              /\ o \notin clients => (lastCall'[3] = Nil /\ clients' = clients \cup {o})
              /\ lastCall = <<"Disconnect", o, Nil>> => (lastCall'[3] = Nil /\ o \in clients')
      ]_vars

\* a Connect of a connected client has just returned an error, another
\* client being connected as well
C20_Witness ==
    /\ lastCall = <<"Connect", "o1", "Client already exists">>
    /\ clients = {"o1", "o2"}

\* C21: Disconnect(o) returns an error and leaves the connected clients as
\* they are if o is not connected; otherwise it returns no error and removes
\* o and nothing else.  A Connect or Disconnect that returns an error leaves
\* every client's registration as it was.
C21_Disconnect ==
    [][/\ \A o \in Observers :
             (lastCall'[1] = "Disconnect" /\ lastCall'[2] = o) =>
                 /\ o \notin clients => (lastCall'[3] # Nil /\ clients' = clients)
                 /\ o \in clients => (lastCall'[3] = Nil /\ clients' = clients \ {o})
       /\ (lastCall'[1] \in {"Connect", "Disconnect"} /\ lastCall'[3] # Nil) =>
              clients' = clients
      ]_vars

\* a Disconnect of a client that is not connected has just returned an
\* error, two other clients being connected
C21_Witness ==
    /\ lastCall = <<"Disconnect", "o1", "Client doesn't exist">>
    /\ clients = {"o2", "o3"}

----------------------------------------------------------------------------
(* The subscription engine's dispatch goroutines *)

\* most dispatch goroutines started in one execution
MaxDispatches == 2

DispatchObservers == {"o1", "o2"}

\* a goroutine that calls OnUsersChanged() whatever its trigger
CallbackOnUsersChanged(trigger) == <<"OnUsersChanged">>

\* the callback a trigger's goroutine invokes on every client:
\* UsersChanged -> OnUsersChanged(), UserChanged(username) ->
\* OnUserChanged(username), ChannelsChanged -> OnChannelsChanged(),
\* ChannelChanged(channelname) -> OnChannelChanged(channelname)
Callback(trigger) ==
    CASE trigger[1] = "UsersChanged" -> <<"OnUsersChanged">>
      [] trigger[1] = "UserChanged" -> <<"OnUserChanged", trigger[2]>>
      [] trigger[1] = "ChannelsChanged" -> <<"OnChannelsChanged">>
      [] trigger[1] = "ChannelChanged" -> <<"OnChannelChanged", trigger[2]>>

\* go func() { ... }(): the goroutine of one trigger call, not yet running.
\* ranged: the clients "for client := range e.clients" has produced;
\* client: the client whose callback is executing
Go(trigger) ==
    [trigger |-> trigger, pc |-> "go", ranged |-> {}, client |-> NoOne]

\* the Engine calls of a store call, each starting its goroutine
Triggers(engineDispatches, calls) ==
    engineDispatches \o [i \in 1..Len(calls) |-> Go(calls[i])]

\* the log file main finds: none yet, or the file of an earlier run in
\* which alice was created
EarlierRuns ==
    {<< >>,
     commitAction(NewModel(FALSE, TRUE, TRUE, NewLogFile).m.logFile, CreateUserAction(alice))}

\* main has created the engine (no clients), the logger and the store:
\* NewModel builds the default state, or replays the file it found
InitDispatch ==
    /\ \E file \in EarlierRuns :
          LET m == IF file = << >>
                   THEN NewModel(FALSE, TRUE, TRUE, NewLogFile).m
                   ELSE NewModel(TRUE, TRUE, TRUE, file).m
          IN  /\ users = m.users
              /\ channels = m.channels
              /\ actionsLogger = m.actionsLogger
              /\ subsEngine = m.subsEngine
              /\ logFile = m.logFile
              /\ triggered = m.triggered
    /\ lastCall = <<"NewModel", Accepted>>
    /\ mutex = NoOne
    /\ pc = [g \in Goroutines |-> "idle"]
    /\ call = [g \in Goroutines |-> NoCall]
    /\ applied = << >>
    /\ process = "serving"
    /\ clients = {}
    /\ testActor = NewTestActor
    /\ logged = << >>
    /\ engineMutex = NoDispatch
    /\ dispatches = << >>
    /\ delivered = << >>
    /\ held = << >>
    /\ returned = NoCall
    /\ disk = NoFile
    /\ NoTelnet

\* a store call whose trigger returns only when no goroutine of the engine
\* is left running
ServesAfterDelivery(m, c) ==
    /\ process = "serving"
    /\ \A k \in DOMAIN dispatches : dispatches[k].pc = "done"
    /\ SumLen(m.channels, DOMAIN m.channels) <= MaxMsgs
    /\ Len(dispatches) + Len(m.triggered) <= MaxDispatches
    /\ users' = m.users
    /\ channels' = m.channels
    /\ actionsLogger' = m.actionsLogger
    /\ subsEngine' = m.subsEngine
    /\ logFile' = m.logFile
    /\ triggered' = m.triggered
    /\ lastCall' = c
    /\ dispatches' = Triggers(dispatches, m.triggered)
    /\ UNCHANGED <<concVars, process, clients, testActor, logged, engineMutex, delivered, callerVars, fileVars, telnetVars>>

\* a store call c returns and leaves the store as m; the triggers it raised
\* have returned as well, their goroutines started
Serves(m, c) ==
    /\ process = "serving"
    /\ SumLen(m.channels, DOMAIN m.channels) <= MaxMsgs
    /\ Len(dispatches) + Len(m.triggered) <= MaxDispatches
    /\ users' = m.users
    /\ channels' = m.channels
    /\ actionsLogger' = m.actionsLogger
    /\ subsEngine' = m.subsEngine
    /\ logFile' = m.logFile
    /\ triggered' = m.triggered
    /\ lastCall' = c
    /\ dispatches' = Triggers(dispatches, m.triggered)
    /\ UNCHANGED <<concVars, process, clients, testActor, logged, engineMutex, delivered, callerVars, fileVars, telnetVars>>

ServeCreateUser ==
    Serves(CreateUser(Entry, alice), <<"CreateUser", CreateUserChecks(Entry, alice)>>)

ServeBlockUser ==
    Serves(BlockUser(Entry, alice, Anonymous),
           <<"BlockUser", BlockUserChecks(Entry, alice, Anonymous)>>)

ServeCreateChannel ==
    Serves(CreateChannel(Entry, dev), <<"CreateChannel", CreateChannelChecks(Entry, dev)>>)

ServePostMessage ==
    \E timestamp \in Timestamps :
        Serves(PostMessage(Entry, General, Anonymous, timestamp, <<"hi">>),
               <<"PostMessage", PostMessageChecks(Entry, General, Anonymous, <<"hi">>)>>)

\* a connection handler connects the client it has just created, and
\* disconnects it when the connection ends
ServeConnect ==
    ConnectCall /\ lastCall'[2] \in DispatchObservers /\ lastCall'[3] = Nil

ServeDisconnect ==
    DisconnectCall /\ lastCall'[2] \in DispatchObservers /\ lastCall'[3] = Nil

\* a Lock that returns whether or not the mutex is held
LockWithoutWaiting(k) == TRUE

\* a mutex that is handed to the goroutines in the order of their triggers
LockInTriggerOrder(k) ==
    /\ engineMutex = NoDispatch
    /\ \A j \in 1..(k - 1) : dispatches[j].pc = "done"

\* e.mutex.Lock() succeeds
Lockable(k) == engineMutex = NoDispatch

\* the goroutine of the k-th trigger acquires the engine mutex
DispatchLock(k) ==
    /\ k \in DOMAIN dispatches
    /\ dispatches[k].pc = "go"
    /\ Lockable(k)
    /\ engineMutex' = k
    /\ dispatches' = [dispatches EXCEPT ![k].pc = "range"]
    /\ UNCHANGED <<storeVars, lastCall, concVars, process, clients, testActor, logged,
                   delivered, callerVars, fileVars, telnetVars>>

\* a range over every client there is, connected or not
RangeOverEveryClient(k) == DispatchObservers

\* for client := range e.clients
Range(k) == clients

\* the range produces the next client, in no particular order, and the
\* goroutine calls its callback
DispatchCallback(k) ==
    /\ k \in DOMAIN dispatches
    /\ dispatches[k].pc = "range"
    /\ \E client \in Range(k) \ dispatches[k].ranged :
          /\ dispatches' = [dispatches EXCEPT ![k].pc = "callback",
                                              ![k].ranged = @ \cup {client},
                                              ![k].client = client]
          /\ delivered' = Append(delivered,
                                 [client |-> client,
                                  callback |-> Callback(dispatches[k].trigger),
                                  dispatch |-> k])
    /\ UNCHANGED <<storeVars, lastCall, concVars, process, clients, testActor, logged,
                   engineMutex, callerVars, fileVars, telnetVars>>

\* the callback returns
CallbackReturns(k) ==
    /\ k \in DOMAIN dispatches
    /\ dispatches[k].pc = "callback"
    /\ dispatches' = [dispatches EXCEPT ![k].pc = "range", ![k].client = NoOne]
    /\ UNCHANGED <<storeVars, lastCall, concVars, process, clients, testActor, logged,
                   engineMutex, delivered, callerVars, fileVars, telnetVars>>

\* the range is exhausted: the deferred e.mutex.Unlock() runs and the
\* goroutine ends
DispatchUnlock(k) ==
    /\ k \in DOMAIN dispatches
    /\ dispatches[k].pc = "range"
    /\ Range(k) \ dispatches[k].ranged = {}
    /\ engineMutex' = NoDispatch
    /\ dispatches' = [dispatches EXCEPT ![k].pc = "done"]
    /\ UNCHANGED <<storeVars, lastCall, concVars, process, clients, testActor, logged,
                   delivered, callerVars, fileVars, telnetVars>>

NextDispatch ==
    \/ ServeCreateUser
    \/ ServeBlockUser
    \/ ServeCreateChannel
    \/ ServePostMessage
    \/ ServeConnect
    \/ ServeDisconnect
    \/ \E k \in 1..Len(dispatches) : DispatchLock(k)
    \/ \E k \in 1..Len(dispatches) : DispatchCallback(k)
    \/ \E k \in 1..Len(dispatches) : CallbackReturns(k)
    \/ \E k \in 1..Len(dispatches) : DispatchUnlock(k)

SpecDispatch == InitDispatch /\ [][NextDispatch]_vars

----------------------------------------------------------------------------
(* The engine on its own: clients connect and disconnect, triggers are     *)
(* called directly (as TestConnectAndDisconnect and TestMultiClient do)    *)

\* most triggers called in one execution
MaxTriggers == 1

EngineTriggers ==
    {UsersChanged, UserChanged(alice), ChannelsChanged, ChannelChanged(General)}

\* engine.UsersChanged(), engine.UserChanged("alice"), ...: the call starts
\* its goroutine and returns
TriggerCall ==
    \E trigger \in EngineTriggers :
        /\ Len(dispatches) < MaxTriggers
        /\ dispatches' = Triggers(dispatches, <<trigger>>)
        /\ lastCall' = <<"Trigger", trigger>>
        /\ UNCHANGED <<storeVars, concVars, process, clients, testActor, logged,
                       engineMutex, delivered, callerVars, fileVars, telnetVars>>

EngineConnect == ConnectCall /\ lastCall'[2] \in DispatchObservers

EngineDisconnect == DisconnectCall /\ lastCall'[2] \in DispatchObservers

NextEngine ==
    \/ TriggerCall
    \/ EngineConnect
    \/ EngineDisconnect
    \/ \E k \in 1..Len(dispatches) : DispatchLock(k)
    \/ \E k \in 1..Len(dispatches) : DispatchCallback(k)
    \/ \E k \in 1..Len(dispatches) : CallbackReturns(k)
    \/ \E k \in 1..Len(dispatches) : DispatchUnlock(k)

SpecEngine == InitSubs /\ [][NextEngine]_vars

\* the clients whose callback the k-th trigger's goroutine has invoked
DeliveredTo(k) ==
    {delivered[i].client : i \in {j \in 1..Len(delivered) : delivered[j].dispatch = k}}

\* this step invokes a callback on client o
Invokes(o) ==
    /\ Len(delivered') = Len(delivered) + 1
    /\ delivered'[Len(delivered')].client = o

\* C22: once Disconnect(o) has returned without an error, o is not connected
\* until a Connect(o) returns without an error, and no callback is invoked on
\* a client that is not connected; a trigger's goroutine ends only when it
\* has invoked its callback on every client that is connected.
C22_NoCallbackAfterDisconnect ==
    [][/\ \A o \in DispatchObservers :
             /\ lastCall' = <<"Disconnect", o, Nil>> => o \notin clients'
             /\ (o \notin clients /\ o \in clients') => lastCall' = <<"Connect", o, Nil>>
             /\ Invokes(o) => o \in clients
       /\ \A k \in 1..Len(dispatches) :
             (dispatches[k].pc # "done" /\ dispatches'[k].pc = "done") =>
                 DeliveredTo(k) = clients
      ]_vars

\* o1 received the first notification and was disconnected; the trigger
\* of the store call made after that has been delivered to o2, which is
\* still connected, and not to o1
C22_Witness ==
    /\ lastCall = <<"PostMessage", Accepted>>
    /\ clients = {"o2"}
    /\ Len(dispatches) = 2
    /\ "o1" \in DeliveredTo(1)
    /\ dispatches[2].pc = "done"
    /\ DeliveredTo(2) = {"o2"}

\* The goroutines are scheduled: a runnable goroutine runs (WF).  A goroutine
\* waiting in e.mutex.Lock() gets the mutex if it is released again and
\* again (SF): sync.Mutex hands the mutex to a waiter that has waited for
\* more than a millisecond.  Every callback returns (WF on CallbackReturns).
FairEngine ==
    /\ SpecEngine
    /\ \A k \in 1..MaxTriggers :
          /\ SF_vars(DispatchLock(k))
          /\ WF_vars(DispatchCallback(k))
          /\ WF_vars(CallbackReturns(k))
          /\ WF_vars(DispatchUnlock(k))

\* the k-th trigger has been called and its goroutine has not ended
Pending(k) == k \in DOMAIN dispatches /\ dispatches[k].pc # "done"

\* callback is the Client method of the trigger, with the trigger's argument
Corresponds(trigger, callback) ==
    \/ trigger = <<"UsersChanged">> /\ callback = <<"OnUsersChanged">>
    \/ trigger = <<"ChannelsChanged">> /\ callback = <<"OnChannelsChanged">>
    \/ \E username \in {alice} :
          trigger = <<"UserChanged", username>> /\ callback = <<"OnUserChanged", username>>
    \/ \E channelname \in {General} :
          trigger = <<"ChannelChanged", channelname>>
              /\ callback = <<"OnChannelChanged", channelname>>

\* every callback invoked is the one of its trigger, and no trigger's
\* goroutine has invoked a callback twice on one client
DeliveredOnce ==
    /\ \A i \in 1..Len(delivered) :
          Corresponds(dispatches[delivered[i].dispatch].trigger, delivered[i].callback)
    /\ \A i, j \in 1..Len(delivered) :
          (delivered[i].client = delivered[j].client
               /\ delivered[i].dispatch = delivered[j].dispatch) => i = j

\* C23: if a client is connected while a trigger's goroutine has not ended,
\* and stays connected, and every callback returns, then the goroutine
\* eventually invokes the trigger's callback, with the trigger's argument, on
\* that client - and it never invokes it twice.
C23_Delivery ==
    /\ []DeliveredOnce
    /\ \A k \in 1..MaxTriggers : \A o \in DispatchObservers :
          []((Pending(k) /\ [](o \in clients)) => <>(o \in DeliveredTo(k)))

\* both clients are connected, UserChanged("alice") was called, its
\* goroutine has ended and each client has had OnUserChanged("alice") once
C23_Witness ==
    /\ clients = {"o1", "o2"}
    /\ Len(dispatches) = 1
    /\ dispatches[1].trigger = UserChanged(alice)
    /\ ~Pending(1)
    /\ Len(delivered) = 2
    /\ \E i, j \in 1..2 :
          /\ delivered[i] = [client |-> "o1", callback |-> <<"OnUserChanged", alice>>,
                             dispatch |-> 1]
          /\ delivered[j] = [client |-> "o2", callback |-> <<"OnUserChanged", alice>>,
                             dispatch |-> 1]

\* a callback is executing: it may take any time, or never return
CallbackRunning == \E k \in DOMAIN dispatches : dispatches[k].pc = "callback"

\* the exploration leaves room for one more message and one more goroutine
RoomLeft ==
    /\ Len(dispatches) < MaxDispatches
    /\ SumLen(channels, DOMAIN channels) < MaxMsgs

\* PostMessage("General", "Anonymous", "hi") runs to its end: the message is
\* stored, the record is in the log file, ChannelChanged("General") has
\* started its goroutine and the call has returned
PostMessageCompletes ==
    /\ ServePostMessage
    /\ lastCall' = <<"PostMessage", Accepted>>
    /\ Len(channels'[General]) = Len(channels[General]) + 1
    /\ Len(logFile') = Len(logFile) + 1
    /\ logFile'[Len(logFile')].Action = ActionEnvelope("PostMessage")
    /\ dispatches' = Append(dispatches, Go(ChannelChanged(General)))

\* C24: a store call does not wait for callbacks: while a callback is
\* executing (and however long it takes) a PostMessage can run to its end -
\* message stored, record logged, trigger called, call returned.
C24_MutationNeverWaits ==
    (CallbackRunning /\ RoomLeft) => ENABLED PostMessageCompletes

\* the callback of the first notification is executing on o1 and no other
\* store call has been accepted yet
C24_Witness ==
    /\ Len(dispatches) = 1
    /\ dispatches[1].pc = "callback"
    /\ dispatches[1].client = "o1"
    /\ RoomLeft

\* C25: while a callback is executing (blocked) in one trigger's goroutine,
\* the store still accepts a PostMessage, and the goroutine of every other
\* trigger that has not run yet can go on to deliver its notification to
\* the connected clients: its e.mutex.Lock() succeeds.
C25_BlockedCallbackIsolated ==
    /\ (CallbackRunning /\ RoomLeft) => ENABLED PostMessageCompletes
    /\ \A k, j \in DOMAIN dispatches :
          (dispatches[k].pc = "callback" /\ j # k /\ dispatches[j].pc = "go"
               /\ clients \ {dispatches[k].client} # {}) =>
              ENABLED DispatchLock(j)

\* C26: the goroutines of different triggers race for the engine mutex: a
\* goroutine that has not run yet can take the free mutex whichever
\* goroutines of earlier triggers are still waiting for it, so a client can
\* get the OnChannelChanged of a later store call before the OnUserChanged
\* of an earlier one (the state C26_Witness).
C26_TriggersRace ==
    \A k \in DOMAIN dispatches :
        (dispatches[k].pc = "go" /\ engineMutex = NoDispatch) => ENABLED DispatchLock(k)

\* a client has had OnChannelChanged("General"), raised by the later store
\* call, before OnUserChanged("alice"), raised by the earlier one
C26_Witness ==
    \E i, j \in 1..Len(delivered) :
        /\ i < j
        /\ delivered[i].client = delivered[j].client
        /\ delivered[i].callback = <<"OnChannelChanged", General>>
        /\ delivered[j].callback = <<"OnUserChanged", alice>>
        /\ delivered[j].dispatch < delivered[i].dispatch
        /\ dispatches[delivered[j].dispatch].trigger = UserChanged(alice)
        /\ dispatches[delivered[i].dispatch].trigger = ChannelChanged(General)

----------------------------------------------------------------------------
(* Channels over time: messages are posted, channels deleted and created   *)
(* again                                                                   *)

\* most messages stored over all channels
MaxPosts == 2

InitChannels == Init /\ ~actionsLogger

\* held once the store is m: every channel of m with its messages, every
\* channel that is gone with the messages it had
Held(m) ==
    [c \in DOMAIN held \cup DOMAIN m.channels |->
        IF c \in DOMAIN m.channels THEN m.channels[c] ELSE held[c]]

\* a store call c returns and leaves the store as m
ChannelsReturns(m, c) ==
    /\ process = "serving"
    /\ SumLen(m.channels, DOMAIN m.channels) <= MaxPosts
    /\ users' = m.users
    /\ channels' = m.channels
    /\ actionsLogger' = m.actionsLogger
    /\ subsEngine' = m.subsEngine
    /\ logFile' = m.logFile
    /\ triggered' = m.triggered
    /\ lastCall' = c
    /\ held' = Held(m)
    /\ UNCHANGED <<concVars, process, clients, testActor, logged, dispatchVars, returned, fileVars, telnetVars>>

ChannelsCreateUser ==
    ChannelsReturns(CreateUser(Entry, alice), <<"CreateUser", CreateUserChecks(Entry, alice)>>)

ChannelsDeleteUser ==
    ChannelsReturns(DeleteUser(Entry, alice), <<"DeleteUser", DeleteUserChecks(Entry, alice)>>)

ChannelsBlockUser ==
    ChannelsReturns(BlockUser(Entry, alice, Anonymous),
                    <<"BlockUser", BlockUserChecks(Entry, alice, Anonymous)>>)

ChannelsUnblockUser ==
    ChannelsReturns(UnblockUser(Entry, alice, Anonymous),
                    <<"UnblockUser", UnblockUserChecks(Entry, alice, Anonymous)>>)

ChannelsCreateChannel ==
    \E channelname \in HistChannelNames :
        ChannelsReturns(CreateChannel(Entry, channelname),
                        <<"CreateChannel", CreateChannelChecks(Entry, channelname)>>)

ChannelsDeleteChannel ==
    \E channelname \in HistChannelNames :
        ChannelsReturns(DeleteChannel(Entry, channelname),
                        <<"DeleteChannel", DeleteChannelChecks(Entry, channelname)>>)

ChannelsPostMessage ==
    \E channelname \in HistChannelNames, username \in HistAuthors,
       timestamp \in Timestamps, text \in HistTexts :
        ChannelsReturns(PostMessage(Entry, channelname, username, timestamp, text),
                        <<"PostMessage",
                          PostMessageChecks(Entry, channelname, username, text)>>)

NextChannels ==
    \/ ChannelsCreateUser
    \/ ChannelsDeleteUser
    \/ ChannelsBlockUser
    \/ ChannelsUnblockUser
    \/ ChannelsCreateChannel
    \/ ChannelsDeleteChannel
    \/ ChannelsPostMessage

SpecChannels == InitChannels /\ [][NextChannels]_vars

\* s is a prefix of t
IsPrefix(s, t) == Len(s) <= Len(t) /\ \A i \in 1..Len(s) : s[i] = t[i]

\* C27 as stated: whenever a channel name c exists, the messages c had in
\* any earlier state in which it existed (held[c]: transitively, the latest
\* such state) are a prefix of the messages it has now.
C27_MessagesOnlyGrow ==
    [][\A c \in DOMAIN channels' \cap DOMAIN held : IsPrefix(held[c], channels'[c])]_vars

\* C27, amended: in every step that keeps a channel, the channel's messages
\* before the step are a prefix of its messages after it; a channel goes
\* away, with its messages, only by an accepted DeleteChannel, and a channel
\* that appears has no messages, whatever a channel of that name had before.
C27_MessagesOnlyGrowWhileChannelExists ==
    [][/\ \A c \in DOMAIN channels \cap DOMAIN channels' :
             IsPrefix(channels[c], channels'[c])
       /\ \A c \in DOMAIN channels \ DOMAIN channels' :
             lastCall' = <<"DeleteChannel", Accepted>>
       /\ \A c \in DOMAIN channels' \ DOMAIN channels :
             lastCall' = <<"CreateChannel", Accepted>> /\ channels'[c] = << >>
      ]_vars

\* General has its message; dev has just been deleted with the message it
\* had
C27_Witness ==
    /\ lastCall = <<"DeleteChannel", Accepted>>
    /\ dev \notin DOMAIN channels
    /\ dev \in DOMAIN held
    /\ Len(held[dev]) = 1
    /\ Len(channels[General]) = 1

----------------------------------------------------------------------------
(* Names: CreateUser and CreateChannel called through the web API, which   *)
(* hands args.Username and args.Channelname to the store as they are       *)

WebUserNames ==
    {Empty, <<"a", SP, "b">>, <<"a", Tab, "b">>, <<"a", Newline>>, Anonymous, alice}

WebChannelNames ==
    {Empty, <<"c", SP, "d">>, <<"c", Tab, "d">>, <<"c", Newline>>, General, dev}

InitNames == Init /\ ~actionsLogger

NamesCreateUser ==
    \E username \in WebUserNames :
        Returns(CreateUser(Entry, username),
                <<"CreateUser", CreateUserChecks(Entry, username)>>)

NamesDeleteUser ==
    \E username \in WebUserNames :
        Returns(DeleteUser(Entry, username),
                <<"DeleteUser", DeleteUserChecks(Entry, username)>>)

NamesCreateChannel ==
    \E channelname \in WebChannelNames :
        Returns(CreateChannel(Entry, channelname),
                <<"CreateChannel", CreateChannelChecks(Entry, channelname)>>)

NamesDeleteChannel ==
    \E channelname \in WebChannelNames :
        Returns(DeleteChannel(Entry, channelname),
                <<"DeleteChannel", DeleteChannelChecks(Entry, channelname)>>)

NextNames ==
    \/ NamesCreateUser
    \/ NamesDeleteUser
    \/ NamesCreateChannel
    \/ NamesDeleteChannel

SpecNames == InitNames /\ [][NextNames]_vars

\* a whitespace character: a space, a tab, a newline
ContainsWhitespace(s) == \E i \in 1..Len(s) : s[i] \in {SP, Tab, Newline}

\* C28: CreateUser and CreateChannel leave the store as it is for a name
\* that is empty or contains a whitespace character, so no stored user name
\* and no stored channel name is empty or contains a whitespace character
\* (names are the keys of the two maps, so they are pairwise distinct).
C28_NamesWellFormed ==
    \A name \in DOMAIN users \cup DOMAIN channels :
        name # Empty /\ ~ContainsWhitespace(name)

----------------------------------------------------------------------------
(* The read queries.  A value a query returns is noted as                  *)
(* [value |-> what the caller reads, shares |-> the slice of the store     *)
(* whose array the value uses, or OwnArray]: a write through a slice that  *)
(* shares its array with the store changes the store.                      *)

\* make(...): an array (or map) of the value's own
OwnArray == << >>

\* GetUsers: a new map with the name of every user
GetUsers(m) == [value |-> DOMAIN m.users, shares |-> OwnArray]

\* a GetUserInfo that returns user.BlockedUsers itself
GetUserInfoSharing(m, username) ==
    IF username \notin DOMAIN m.users
    THEN [value |-> [Name |-> Empty, BlockedUsers |-> << >>], shares |-> OwnArray]
    ELSE [value |-> [Name |-> username, BlockedUsers |-> m.users[username]],
          shares |-> <<"BlockedUsers", username>>]

\* GetUserInfo: User{} for a user that does not exist, else the name and a
\* copy (make, copy) of the blocked users
GetUserInfo(m, username) ==
    IF username \notin DOMAIN m.users
    THEN [value |-> [Name |-> Empty, BlockedUsers |-> << >>], shares |-> OwnArray]
    ELSE [value |-> [Name |-> username, BlockedUsers |-> m.users[username]],
          shares |-> OwnArray]

\* GetChannels: a new map with the name of every channel
GetChannels(m) == [value |-> DOMAIN m.channels, shares |-> OwnArray]

\* a GetChannelInfo that takes an unknown channel for General
GetChannelInfoOfGeneral(m, channelname) ==
    LET c == IF channelname \in DOMAIN m.channels THEN channelname ELSE General
    IN  [value |-> [Name |-> c, NumMessages |-> Len(m.channels[c])], shares |-> OwnArray]

\* GetChannelInfo: ChannelInfo{} for a channel that does not exist, else the
\* name and len(channel.Messages)
GetChannelInfo(m, channelname) ==
    IF channelname \notin DOMAIN m.channels
    THEN [value |-> [Name |-> Empty, NumMessages |-> 0], shares |-> OwnArray]
    ELSE [value |-> [Name |-> channelname,
                     NumMessages |-> Len(m.channels[channelname])],
          shares |-> OwnArray]

\* the names of this section in the order of sort.Strings (bytewise:
\* "A" < "a" < "b")
SortOrder == <<Anonymous, alice, bob>>

RECURSIVE SortedFrom(_, _)
SortedFrom(s, i) ==
    IF i > Len(SortOrder) THEN << >>
    ELSE SelectSeq(s, LAMBDA x : x = SortOrder[i]) \o SortedFrom(s, i + 1)

\* sort.Strings(s), for s made of the names of SortOrder
SortStrings(s) == SortedFrom(s, 1)

QueryUserNames == {Anonymous, alice, bob}
QueryChannelNames == {General, dev}
QueryNumMessages == {-1, 1}

InitQueries == Init

\* a mutation c returns and leaves the store as m; no caller holds a value
QueriesReturns(m, c) ==
    /\ process = "serving"
    /\ Len(m.logFile) <= MaxLog
    /\ SumLen(m.channels, DOMAIN m.channels) <= MaxPosts
    /\ users' = m.users
    /\ channels' = m.channels
    /\ actionsLogger' = m.actionsLogger
    /\ subsEngine' = m.subsEngine
    /\ logFile' = m.logFile
    /\ triggered' = m.triggered
    /\ lastCall' = c
    /\ returned' = NoCall
    /\ UNCHANGED <<concVars, process, clients, testActor, logged, dispatchVars, held, fileVars, telnetVars>>

QueriesCreateUser ==
    \E username \in {alice, bob} :
        QueriesReturns(CreateUser(Entry, username),
                       <<"CreateUser", CreateUserChecks(Entry, username)>>)

QueriesDeleteUser ==
    QueriesReturns(DeleteUser(Entry, alice), <<"DeleteUser", DeleteUserChecks(Entry, alice)>>)

QueriesBlockUser ==
    \E usernameToBlock \in {Anonymous, bob} :
        QueriesReturns(BlockUser(Entry, alice, usernameToBlock),
                       <<"BlockUser", BlockUserChecks(Entry, alice, usernameToBlock)>>)

QueriesPostMessage ==
    \E username \in HistAuthors, timestamp \in Timestamps :
        QueriesReturns(PostMessage(Entry, General, username, timestamp, <<"hi">>),
                       <<"PostMessage",
                         PostMessageChecks(Entry, General, username, <<"hi">>)>>)

\* a query c returns r to its caller, which may write to what it holds:
\* a write to a value that shares an array with the store is a write to the
\* store's slice
Answers(c, r, written) ==
    /\ process = "serving"
    /\ users' = (IF r.shares # OwnArray /\ r.shares[1] = "BlockedUsers"
                 THEN [users EXCEPT ![r.shares[2]] = written.value.BlockedUsers]
                 ELSE users)
    /\ channels' = channels
    /\ actionsLogger' = actionsLogger
    /\ subsEngine' = subsEngine
    /\ logFile' = logFile
    /\ triggered' = << >>
    /\ lastCall' = c
    /\ returned' = written
    /\ UNCHANGED <<concVars, process, clients, testActor, logged, dispatchVars, held, fileVars, telnetVars>>

GetUsersCall ==
    Answers(<<"GetUsers", << >>>>, GetUsers(Entry), GetUsers(Entry))

\* WebAPI.GetUserInfo: the query, then sort.Strings on the blocked users of
\* the value returned
GetUserInfoCall ==
    \E username \in QueryUserNames :
        LET r == GetUserInfo(Entry, username)
        IN  Answers(<<"GetUserInfo", <<username>>>>, r,
                    [r EXCEPT !.value.BlockedUsers = SortStrings(@)])

GetChannelsCall ==
    Answers(<<"GetChannels", << >>>>, GetChannels(Entry), GetChannels(Entry))

GetChannelInfoCall ==
    \E channelname \in QueryChannelNames :
        LET r == GetChannelInfo(Entry, channelname)
        IN  Answers(<<"GetChannelInfo", <<channelname>>>>, r, r)

\* GetChannelHistory: messages := make([]Message, 0), then the appends
QueriesGetChannelHistory ==
    \E channelname \in QueryChannelNames, username \in QueryUserNames,
       numMessages \in QueryNumMessages :
        LET r == [value |-> GetChannelHistory(Entry, channelname, username, numMessages),
                  shares |-> OwnArray]
        IN  Answers(<<"GetChannelHistory", <<channelname, username, numMessages>>>>, r, r)

NextQueries ==
    \/ QueriesCreateUser
    \/ QueriesDeleteUser
    \/ QueriesBlockUser
    \/ QueriesPostMessage
    \/ GetUsersCall
    \/ GetUserInfoCall
    \/ GetChannelsCall
    \/ GetChannelInfoCall
    \/ QueriesGetChannelHistory

SpecQueries == InitQueries /\ [][NextQueries]_vars

Queries == {"GetUsers", "GetUserInfo", "GetChannels", "GetChannelInfo", "GetChannelHistory"}

\* what the five queries return on the store m, for every input
Answered(m) ==
    [users |-> GetUsers(m).value,
     userInfo |-> [u \in QueryUserNames |-> GetUserInfo(m, u).value],
     channels |-> GetChannels(m).value,
     channelInfo |-> [c \in QueryChannelNames |-> GetChannelInfo(m, c).value],
     history |-> [c \in QueryChannelNames |->
                    [u \in QueryUserNames |->
                        [n \in QueryNumMessages |-> GetChannelHistory(m, c, u, n)]]]]

\* C29: a query - and what its caller does to the value returned, such as
\* WebAPI.GetUserInfo sorting the blocked users - leaves users, blocked
\* users, channels, messages and the log file as they are and calls no
\* trigger; the value returned shares no array with the store, and every
\* query returns afterwards what it would have returned before.
C29_QueriesReturnCopies ==
    [][lastCall'[1] \in Queries =>
          /\ users' = users
          /\ channels' = channels
          /\ logFile' = logFile
          /\ triggered' = << >>
          /\ returned'.shares = OwnArray
          /\ Answered(World') = Answered(World)
      ]_vars

\* alice has blocked bob, then Anonymous; WebAPI.GetUserInfo has returned
\* the two names sorted and the store still has them in the order of the
\* BlockUser calls
C29_Witness ==
    /\ lastCall = <<"GetUserInfo", <<alice>>>>
    /\ returned.value = [Name |-> alice, BlockedUsers |-> <<Anonymous, bob>>]
    /\ users[alice] = <<bob, Anonymous>>

\* C30: a query that names a user or a channel the store does not have
\* returns the zero value: GetUserInfo an empty name and no blocked users,
\* GetChannelInfo an empty name and 0 messages, GetChannelHistory no messages
\* - for an unknown channel and for an unknown requesting user, a deleted one
\* included.  (No query has an error result.)
C30_UnknownNamesAnswerEmpty ==
    /\ (lastCall[1] = "GetUserInfo" /\ lastCall[2][1] \notin DOMAIN users) =>
          returned = [value |-> [Name |-> Empty, BlockedUsers |-> << >>],
                      shares |-> OwnArray]
    /\ (lastCall[1] = "GetChannelInfo" /\ lastCall[2][1] \notin DOMAIN channels) =>
          returned = [value |-> [Name |-> Empty, NumMessages |-> 0],
                      shares |-> OwnArray]
    /\ (lastCall[1] = "GetChannelHistory"
            /\ (lastCall[2][1] \notin DOMAIN channels \/ lastCall[2][2] \notin DOMAIN users)) =>
          returned = [value |-> << >>, shares |-> OwnArray]

\* alice posted to General and was deleted; asked for General's history as
\* alice, the store has returned no message
C30_Witness ==
    /\ lastCall = <<"GetChannelHistory", <<General, alice, -1>>>>
    /\ alice \notin DOMAIN users
    /\ \E i \in 1..Len(channels[General]) : channels[General][i].Username = alice
    /\ returned.value = << >>

----------------------------------------------------------------------------
(* The log file as text.  The text of a file is a sequence of units: the   *)
(* one-byte units "[", "]", "," and Newline, and the text of a JSON        *)
(* object, written as the object it denotes.  An object's text cut short   *)
(* by an overwrite is Torn.                                                *)


Byte(c) == [t |-> "byte", v |-> <<c>>]
Torn == [t |-> "torn", v |-> Empty]

\* json.Marshal(action): the text of the object
Marshal(object) == [t |-> "text", v |-> object]

OneByte == {Byte("["), Byte("]"), Byte(","), Byte(Newline)}

\* len() of a unit's text: "{}" has two bytes, a marshalled action has more
\* (its Action member alone has more than twenty)
ByteLen(unit) ==
    IF unit \in OneByte THEN 1
    ELSE IF unit = Marshal(Placeholder) THEN 2
    ELSE IF unit = Torn THEN 1
    ELSE 20

RECURSIVE Size(_)
\* info.Size()
Size(text) == IF text = << >> THEN 0 ELSE ByteLen(Head(text)) + Size(Tail(text))

RECURSIVE UpTo(_, _)
\* the text in front of byte offset: the units that end at or before it,
\* then what is left of a unit the offset cuts
UpTo(text, offset) ==
    IF offset <= 0 \/ text = << >> THEN << >>
    ELSE IF ByteLen(Head(text)) <= offset
         THEN <<Head(text)>> \o UpTo(Tail(text), offset - ByteLen(Head(text)))
         ELSE <<Torn>>

\* logFile.WriteString(s) at offset, s reaching beyond the end of the file
WriteString(text, offset, s) == UpTo(text, offset) \o s

\* a Seek that goes to the end of the file
SeekToEnd(text, back) == Size(text)

\* logFile.Seek(-back, 2): the offset, negative when the Seek fails
Seek(text, back) == Size(text) - back

\* NewLogger: a file that does not exist or has size 0 is created and gets
\* "[\n{}\n]"; any other file is left as it is
NewLoggerFile(text) ==
    IF text = NoFile \/ Size(text) = 0
    THEN <<Byte("["), Byte(Newline), Marshal(Placeholder), Byte(Newline), Byte("]")>>
    ELSE text

\* Logger.commitAction on the text: ",\n" + jsonAction + "\n]" is written
\* over the last two bytes; fatal is log.Fatal (a Seek in front of the
\* start of the file fails)
commitActionText(text, action) ==
    LET offset == Seek(text, 2)
    IN  IF text = NoFile \/ offset < 0
        THEN [fatal |-> TRUE, text |-> IF text = NoFile THEN << >> ELSE text]
        ELSE [fatal |-> FALSE,
              text |-> WriteString(text, offset,
                           <<Byte(","), Byte(Newline), Marshal(action),
                             Byte(Newline), Byte("]")>>)]

\* the text without its white space
Tokens(text) == SelectSeq(text, LAMBDA unit : unit # Byte(Newline))

\* json.Unmarshal(wholeFile, &result) into a []map[string]interface{}:
\* the text has to be one array, its elements separated by commas
Unmarshal(text) ==
    LET tokens == Tokens(text)
        n == Len(tokens)
        inner == SubSeq(tokens, 2, n - 1)
        wellFormed ==
            /\ text # NoFile
            /\ n >= 2
            /\ tokens[1] = Byte("[")
            /\ tokens[n] = Byte("]")
            /\ \/ Len(inner) = 0
               \/ /\ Len(inner) % 2 = 1
                  /\ \A i \in 1..Len(inner) :
                        IF i % 2 = 1 THEN inner[i].t = "text" ELSE inner[i] = Byte(",")
    IN  IF wellFormed
        THEN [err |-> Nil,
              result |-> [i \in 1..((Len(inner) + 1) \div 2) |-> inner[2 * i - 1].v]]
        ELSE [err |-> "invalid input log file - malformed json", result |-> << >>]

\* a test's temporary path: no file there yet, or a file of size 0
InitLogFile ==
    /\ disk \in {NoFile, << >>}
    /\ NoTelnet
    /\ logFile = << >>
    /\ logged = << >>
    /\ testActor = NewTestActor
    /\ lastCall = <<"TempFile", Accepted>>
    /\ process = "testing"
    /\ users = << >>
    /\ channels = << >>
    /\ actionsLogger = FALSE
    /\ subsEngine = FALSE
    /\ triggered = << >>
    /\ mutex = NoOne
    /\ pc = [g \in Goroutines |-> "idle"]
    /\ call = [g \in Goroutines |-> NoCall]
    /\ applied = << >>
    /\ clients = {}
    /\ engineMutex = NoDispatch
    /\ dispatches = << >>
    /\ delivered = << >>
    /\ held = << >>
    /\ returned = NoCall

\* NewLogger(logFilePath)
NewLoggerCall ==
    /\ process = "testing"
    /\ ~actionsLogger
    /\ disk' = NewLoggerFile(disk)
    /\ actionsLogger' = TRUE
    /\ lastCall' = <<"NewLogger", Accepted>>
    /\ UNCHANGED <<users, channels, subsEngine, logFile, triggered, concVars, process,
                   clients, testActor, logged, dispatchVars, callerVars, telnetVars>>

\* a call on the Logger: the action is marshalled and committed to the
\* file; logged keeps the marshalled actions
FileCall(action) ==
    /\ process = "testing"
    /\ actionsLogger
    /\ Len(logged) < MaxLogged
    /\ LET r == commitActionText(disk, action)
       IN  /\ disk' = r.text
           /\ process' = IF r.fatal THEN "exited" ELSE process
           /\ logged' = IF r.fatal THEN logged ELSE Append(logged, action)
           /\ lastCall' = <<"Logger", IF r.fatal THEN "fatal" ELSE Accepted>>
    /\ UNCHANGED <<storeVars, concVars, clients, testActor, dispatchVars, callerVars,
                   telnetVars>>

FileCreateUser ==
    \E username \in RoundTripUserNames : FileCall(CreateUserAction(username))

FileDeleteUser ==
    \E username \in RoundTripUserNames : FileCall(DeleteUserAction(username))

FileBlockUser ==
    \E username, usernameToBlock \in RoundTripUserNames :
        FileCall(BlockUserAction(username, usernameToBlock))

FileUnblockUser ==
    \E username, usernameToUnblock \in RoundTripUserNames :
        FileCall(UnblockUserAction(username, usernameToUnblock))

FileCreateChannel ==
    \E channelname \in RoundTripChannelNames : FileCall(CreateChannelAction(channelname))

FileDeleteChannel ==
    \E channelname \in RoundTripChannelNames : FileCall(DeleteChannelAction(channelname))

FilePostMessage ==
    \E channelname \in RoundTripChannelNames, username \in RoundTripUserNames,
       timestamp \in Timestamps, text \in RoundTripTexts :
        FileCall(PostMessageAction(channelname, username, timestamp, text))

NextLogFile ==
    \/ NewLoggerCall
    \/ FileCreateUser
    \/ FileDeleteUser
    \/ FileBlockUser
    \/ FileUnblockUser
    \/ FileCreateChannel
    \/ FileDeleteChannel
    \/ FilePostMessage

SpecLogFile == InitLogFile /\ [][NextLogFile]_vars

\* C31: once NewLogger has initialized a file that did not exist or was
\* empty, and after every call on the Logger, the file's text unmarshals
\* into the placeholder followed by the actions of the calls, one each, in
\* the order of the calls; a call leaves the text of the earlier records as
\* it was, so the elements of the file before a call are a prefix of those
\* after it.
C31_LogIsValidSequence ==
    /\ [](actionsLogger =>
            /\ Unmarshal(disk).err = Nil
            /\ Unmarshal(disk).result = <<Placeholder>> \o logged)
    /\ [][actionsLogger =>
            /\ process' = "testing"
            /\ UpTo(disk', Size(disk) - 2) = UpTo(disk, Size(disk) - 2)
            /\ IsPrefix(Unmarshal(disk).result, Unmarshal(disk').result)]_vars

C31_Witness ==
    /\ lastCall = <<"Logger", Accepted>>
    /\ Len(logged) = 2
    /\ logged[1] # logged[2]
    /\ disk = <<Byte("["), Byte(Newline), Marshal(Placeholder),
                Byte(","), Byte(Newline), Marshal(logged[1]),
                Byte(","), Byte(Newline), Marshal(logged[2]), Byte(Newline), Byte("]")>>

----------------------------------------------------------------------------
(* The running server with a log file whose file operations can fail:      *)
(* commitAction answers every error of OpenFile, Seek, WriteString and     *)
(* Close with log.Fatal.                                                   *)

\* a log.Fatal that prints the error and returns
LogPrintln == "serving"

\* log.Fatal(err): the error is printed and os.Exit(1) ends the process
LogFatal == "exited"

\* what a failed commitAction leaves of the file: OpenFile or Seek failed
\* (the file as it was), WriteString failed (what it wrote of the record is
\* no JSON object), or Close failed (the record is written)
FailedCommits(file, action) ==
    {file, commitAction(file, NotAnObject), commitAction(file, action)}

\* m.actionsLogger.X(...) with a file operation that fails: the process
\* exits inside the call, and with it every goroutine
LoggingFails(g) ==
    /\ pc[g] = "logging"
    /\ actionsLogger
    /\ \E file \in FailedCommits(logFile, CallAction(call[g])) : logFile' = file
    /\ process' = LogFatal
    /\ pc' = IF process' = "exited"
             THEN [h \in Goroutines |-> "exited"]
             ELSE [pc EXCEPT ![g] = "subs"]
    /\ lastCall' = <<"commitAction", "log.Fatal">>
    /\ UNCHANGED <<users, channels, actionsLogger, subsEngine, triggered,
                   mutex, call, applied, otherVars>>

NextFatal ==
    \E g \in Goroutines :
        \/ Begin(g)
        \/ Lock(g)
        \/ Checks(g)
        \/ Update(g)
        \/ Logging(g)
        \/ LoggingFails(g)
        \/ Subs(g)
        \/ Unlock(g)

SpecFatal == InitConc /\ [][NextFatal]_vars

\* the call of goroutine g was accepted and its record is the last of the log
LoggedLast(g) ==
    /\ Len(call[g]) = 3
    /\ call[g][3] = Accepted
    /\ logFile[Len(logFile)] = CallAction(call[g])

\* C32: a file operation that fails during an append ends the process inside
\* the store call: nothing happens afterwards, so the call does not return
\* and raises no notification; a store call that was accepted calls the
\* engine, and returns to its caller, only with its record at the end of
\* the log.
C32_LogFailureIsFatal ==
    [][/\ process = "serving"
       /\ lastCall' = <<"commitAction", "log.Fatal">> => process' = "exited"
       /\ \A g \in Goroutines :
             /\ (pc[g] = "subs" /\ pc'[g] = "Unlock") =>
                   (LoggedLast(g) /\ Len(triggered') = Len(triggered) + 1)
             /\ (pc[g] = "Unlock" /\ pc'[g] = "returned" /\ Len(call[g]) = 3
                    /\ call[g][3] = Accepted) => LoggedLast(g)]_vars

\* a goroutine's call has returned with its record logged; the other's
\* change is made and not logged: the commit failed and the process is gone
C32_Witness ==
    /\ process = "exited"
    /\ Len(applied) = 2
    /\ Len(LoggedByCallers) = 1
    /\ LoggedByCallers[1] = CallAction(applied[1])
    /\ Len(TriggeredByCallers) = 1
    /\ \A g \in Goroutines : pc[g] = "exited"

----------------------------------------------------------------------------
(* Names used again: users and channels are deleted and created again in   *)
(* a store that logs, so the log tells what a name went through.           *)

\* longest log file of the store whose names are used again
MaxRecords == 9

\* a store call c returns and leaves the store as m
RecreateReturns(m, c) ==
    /\ Len(m.logFile) <= MaxRecords
    /\ SumLen(m.channels, DOMAIN m.channels) <= MaxPosts
    /\ Returns(m, c)

RecreateCreateUser ==
    \E username \in {alice, bob} :
        RecreateReturns(CreateUser(Entry, username),
                        <<"CreateUser", CreateUserChecks(Entry, username), username>>)

RecreateDeleteUser ==
    RecreateReturns(DeleteUser(Entry, alice),
                    <<"DeleteUser", DeleteUserChecks(Entry, alice), alice>>)

RecreateBlockUser ==
    \E username, usernameToBlock \in {alice, bob} :
        RecreateReturns(BlockUser(Entry, username, usernameToBlock),
                        <<"BlockUser", BlockUserChecks(Entry, username, usernameToBlock),
                          username>>)

RecreateCreateChannel ==
    RecreateReturns(CreateChannel(Entry, dev),
                    <<"CreateChannel", CreateChannelChecks(Entry, dev), dev>>)

RecreateDeleteChannel ==
    RecreateReturns(DeleteChannel(Entry, dev),
                    <<"DeleteChannel", DeleteChannelChecks(Entry, dev), dev>>)

RecreatePostMessage ==
    \E timestamp \in Timestamps :
        RecreateReturns(PostMessage(Entry, dev, Anonymous, timestamp, <<"hi">>),
                        <<"PostMessage", PostMessageChecks(Entry, dev, Anonymous, <<"hi">>),
                          dev>>)

NextRecreate ==
    \/ RecreateCreateUser
    \/ RecreateDeleteUser
    \/ RecreateBlockUser
    \/ RecreateCreateChannel
    \/ RecreateDeleteChannel
    \/ RecreatePostMessage

SpecRecreate == InitConc /\ [][NextRecreate]_vars

\* C33: an accepted CreateUser(n) adds n with no blocked user, and n is
\* blocked by no user; an accepted CreateChannel(c) adds c with no message;
\* whatever a user or channel of the name was before it was deleted.
C33_CreatedEntitiesAreFresh ==
    [][/\ \A n \in {alice, bob} :
             lastCall' = <<"CreateUser", Accepted, n>> =>
                 /\ n \notin DOMAIN users
                 /\ DOMAIN users' = DOMAIN users \cup {n}
                 /\ users'[n] = << >>
                 /\ \A u \in DOMAIN users' : n \notin Elems(users'[u])
       /\ lastCall' = <<"CreateChannel", Accepted, dev>> =>
             /\ dev \notin DOMAIN channels
             /\ DOMAIN channels' = DOMAIN channels \cup {dev}
             /\ channels'[dev] = << >>
      ]_vars

\* bob blocked alice and alice blocked bob, alice was deleted and has just
\* been created again
C33_Witness ==
    /\ lastCall = <<"CreateUser", Accepted, alice>>
    /\ logFile[Len(logFile)] = CreateUserAction(alice)
    /\ \E i, j, k \in 1..Len(logFile) :
          /\ i < k
          /\ j < k
          /\ logFile[i] = BlockUserAction(bob, alice)
          /\ logFile[j] = BlockUserAction(alice, bob)
          /\ logFile[k] = DeleteUserAction(alice)
    /\ users[alice] = << >>
    /\ users[bob] = << >>

----------------------------------------------------------------------------
(* Store calls and their notifications: the goroutines of the callers run  *)
(* the store calls statement by statement, the engine's goroutines deliver *)
(* the triggers to a telnet connection, whose callbacks query the store.   *)

\* the telnet connection's client
NotifyObservers == {"o1"}

\* the handler of a new telnet connection connects its client
NotifyConnect == ConnectCall /\ lastCall'[2] \in NotifyObservers /\ lastCall'[3] = Nil

\* if m.subsEngine != nil { m.subsEngine.X(...) }: the engine starts the
\* trigger's goroutine and returns
NotifySubs(g) ==
    /\ pc[g] = "subs"
    /\ Store(HandleSubscriptions(World, CallTrigger(call[g])))
    /\ dispatches' = Triggers(dispatches, <<CallTrigger(call[g])>>)
    /\ pc' = [pc EXCEPT ![g] = "Unlock"]
    /\ UNCHANGED <<lastCall, mutex, call, applied, process, clients, testActor, logged,
                   engineMutex, delivered, callerVars, fileVars, telnetVars>>

\* the store query a TelnetConn callback starts with: OnUsersChanged calls
\* GetUsers, OnChannelsChanged calls GetChannels
CallbackQuery(callback, m) ==
    CASE callback[1] = "OnUsersChanged" -> GetUsers(m)
      [] callback[1] = "OnChannelsChanged" -> GetChannels(m)

\* the callback that the k-th trigger's goroutine is executing makes its
\* query: the query locks m.mutex, reads and unlocks
CallbackQueries(k) ==
    /\ k \in DOMAIN dispatches
    /\ dispatches[k].pc = "callback"
    /\ MutexUnlocked
    /\ returned' = CallbackQuery(Callback(dispatches[k].trigger), World)
    /\ lastCall' = <<"Query", k>>
    /\ UNCHANGED <<storeVars, concVars, process, clients, testActor, logged,
                   dispatchVars, held, fileVars, telnetVars>>

NextNotify ==
    \/ NotifyConnect
    \/ \E g \in Goroutines :
          \/ Begin(g)
          \/ Lock(g)
          \/ Checks(g)
          \/ Update(g)
          \/ Logging(g)
          \/ NotifySubs(g)
          \/ Unlock(g)
    \/ \E k \in 1..Len(dispatches) : DispatchLock(k)
    \/ \E k \in 1..Len(dispatches) : DispatchCallback(k)
    \/ \E k \in 1..Len(dispatches) : CallbackQueries(k)
    \/ \E k \in 1..Len(dispatches) : CallbackReturns(k)
    \/ \E k \in 1..Len(dispatches) : DispatchUnlock(k)

SpecNotify == InitConc /\ [][NextNotify]_vars

\* the store after the first n state changes of the callers
RECURSIVE After(_)
After(n) ==
    IF n = 0 THEN NewModel(FALSE, TRUE, TRUE, NewLogFile).m
    ELSE CallUpdate(After(n - 1), applied[n])

\* C34: the k-th goroutine of the engine belongs to the k-th state change:
\* from the moment it is started the record of the change is in the log, and
\* a store query made by one of its callbacks returns the store as it is
\* after that change or after a later one, never as it was before.
C34_MutateLogNotify ==
    /\ [](\A k \in DOMAIN dispatches :
             /\ k <= Len(applied)
             /\ dispatches[k].trigger = CallTrigger(applied[k])
             /\ k <= Len(LoggedByCallers)
             /\ LoggedByCallers[k] = CallAction(applied[k]))
    /\ [][\A k \in DOMAIN dispatches :
             lastCall' = <<"Query", k>> =>
                 \E n \in k..Len(applied) :
                     returned' = CallbackQuery(Callback(dispatches[k].trigger), After(n))
         ]_vars

\* alice was created and then deleted; the connection's OnUsersChanged for
\* the creation queries the users after the deletion
C34_Witness ==
    /\ lastCall = <<"Query", 1>>
    /\ applied = <<<<"CreateUser", alice>>, <<"DeleteUser", alice>>>>
    /\ dispatches[1].pc = "callback"
    /\ returned = GetUsers(World)
    /\ alice \notin DOMAIN users

----------------------------------------------------------------------------
(* The order of the deliveries *)

\* the k-th trigger's goroutine is between e.mutex.Lock() and the deferred
\* e.mutex.Unlock()
Dispatching(k) == dispatches[k].pc \in {"range", "callback"}

\* the position in delivered of the callback that the k-th trigger's
\* goroutine invoked on client o, 0 if there is none
DeliveryOf(k, o) ==
    LET at == {i \in 1..Len(delivered) :
                   delivered[i].dispatch = k /\ delivered[i].client = o}
    IN  IF at = {} THEN 0 ELSE CHOOSE i \in at : TRUE

\* C35: at most one trigger's goroutine is delivering at a time, and it
\* invokes its callback once on every connected client before the next
\* one starts; the connected clients change only while no goroutine is
\* delivering; so two clients that both get the callbacks of two triggers
\* get them in the same order.
C35_DispatchesNeverInterleave ==
    /\ [](/\ \A j, k \in DOMAIN dispatches : (Dispatching(j) /\ Dispatching(k)) => j = k
          /\ \A k \in DOMAIN dispatches : Dispatching(k) <=> engineMutex = k
          /\ \A i, j \in 1..Len(delivered) :
                (i < j /\ delivered[i].dispatch # delivered[j].dispatch) =>
                    \A h \in (j + 1)..Len(delivered) :
                        delivered[h].dispatch # delivered[i].dispatch
          /\ \A j, k \in DOMAIN dispatches, o, p \in DispatchObservers :
                (/\ DeliveryOf(j, o) # 0 /\ DeliveryOf(k, o) # 0
                 /\ DeliveryOf(j, p) # 0 /\ DeliveryOf(k, p) # 0) =>
                    (DeliveryOf(j, o) < DeliveryOf(k, o) <=>
                        DeliveryOf(j, p) < DeliveryOf(k, p)))
    /\ [][/\ clients' # clients => \A k \in DOMAIN dispatches : ~Dispatching(k)
          /\ \A k \in DOMAIN dispatches :
                (Dispatching(k) /\ ~Dispatching(k)') =>
                    /\ DeliveredTo(k) = clients
                    /\ \A o \in clients :
                          Cardinality({i \in 1..Len(delivered) :
                              delivered[i].dispatch = k /\ delivered[i].client = o}) = 1
         ]_vars

\* both clients have got the callbacks of both triggers, those of the
\* later trigger first
C35_Witness ==
    /\ Len(dispatches) = 2
    /\ Len(delivered) = 4
    /\ delivered[1].dispatch = 2
    /\ delivered[2].dispatch = 2
    /\ delivered[3].dispatch = 1
    /\ delivered[4].dispatch = 1
    /\ delivered[1].client # delivered[3].client
    /\ \A k \in {1, 2} : DeliveredTo(k) = DispatchObservers

----------------------------------------------------------------------------
(* Runs of the server on one log file path: a run can be stopped anywhere  *)
(* (the process is killed or the machine goes down), and the next run      *)
(* starts from the file the earlier ones left.  The file's text is written *)
(* by whole calls: NewLogger's one WriteString, commitAction's one         *)
(* WriteString.                                                            *)

\* NewModel's "model := Model{...}" with the logger and the engine of main
EmptyModel(file) ==
    [users |-> << >>, channels |-> << >>, actionsLogger |-> TRUE, subsEngine |-> TRUE,
     logFile |-> file, triggered |-> << >>]

\* the first run: config.LogFilePath names no file yet
InitRuns ==
    /\ logFile = << >>
    /\ users = << >>
    /\ channels = << >>
    /\ actionsLogger = FALSE
    /\ subsEngine = FALSE
    /\ triggered = << >>
    /\ lastCall = <<"main", "starting">>
    /\ mutex = NoOne
    /\ pc = [g \in Goroutines |-> "idle"]
    /\ call = [g \in Goroutines |-> NoCall]
    /\ applied = << >>
    /\ process = "starting"
    /\ clients = {}
    /\ testActor = NewTestActor
    /\ logged = << >>
    /\ engineMutex = NoDispatch
    /\ dispatches = << >>
    /\ delivered = << >>
    /\ held = << >>
    /\ returned = NoCall
    /\ disk = NoFile
    /\ NoTelnet

\* main: os.Stat and, if the file exists, NewReplayer; then NewLogger, which
\* initializes a file that does not exist and leaves any other as it is
MainNewLogger ==
    /\ process = "starting"
    /\ logFile' = IF logFile = << >> THEN NewLogFile ELSE logFile
    /\ lastCall' = <<"NewReplayer", IF logFile = << >> THEN "no file" ELSE Accepted>>
    /\ process' = "constructing"
    /\ UNCHANGED <<users, channels, actionsLogger, subsEngine, triggered, concVars, otherVars>>

\* NewModel with no replayer: model.CreateUser("Anonymous")
NewModelCreateUser ==
    /\ process = "constructing"
    /\ lastCall = <<"NewReplayer", "no file">>
    /\ Store(CreateUser(EmptyModel(logFile), Anonymous))
    /\ lastCall' = <<"CreateUser", Accepted>>
    /\ process' = "seeding"
    /\ UNCHANGED <<concVars, otherVars>>

\* NewModel with no replayer: model.CreateChannel("General"), and main goes
\* on to serve
NewModelCreateChannel ==
    /\ process = "seeding"
    /\ Store(CreateChannel(World, General))
    /\ lastCall' = <<"NewModel", Accepted>>
    /\ process' = "serving"
    /\ UNCHANGED <<concVars, otherVars>>

\* NewModel with the replayer: the file is replayed
NewModelReplay ==
    /\ process = "constructing"
    /\ lastCall = <<"NewReplayer", Accepted>>
    /\ Started(NewModel(TRUE, TRUE, TRUE, logFile))

RunsCreateUser ==
    \E username \in {Anonymous, alice} :
        Return(CreateUser(Entry, username), <<"CreateUser", CreateUserChecks(Entry, username)>>)

RunsCreateChannel ==
    \E channelname \in {General, dev} :
        Return(CreateChannel(Entry, channelname),
               <<"CreateChannel", CreateChannelChecks(Entry, channelname)>>)

RunsPostMessage ==
    \E timestamp \in Timestamps :
        Return(PostMessage(Entry, General, Anonymous, timestamp, <<"hi">>),
               <<"PostMessage", PostMessageChecks(Entry, General, Anonymous, <<"hi">>)>>)

\* the process stops between two of its steps; the file stays, and the
\* next run starts
Stop ==
    /\ process \in {"constructing", "seeding", "serving"}
    /\ process' = "starting"
    /\ users' = << >>
    /\ channels' = << >>
    /\ actionsLogger' = FALSE
    /\ subsEngine' = FALSE
    /\ triggered' = << >>
    /\ lastCall' = <<"main", "starting">>
    /\ UNCHANGED <<logFile, concVars, otherVars>>

NextRuns ==
    \/ MainNewLogger
    \/ NewModelCreateUser
    \/ NewModelCreateChannel
    \/ NewModelReplay
    \/ RunsCreateUser
    \/ RunsCreateChannel
    \/ RunsPostMessage
    \/ Stop

SpecRuns == InitRuns /\ [][NextRuns]_vars

\* C36: the store that main serves has user "Anonymous" and channel
\* "General", whether NewModel built it or replayed it from the file an
\* earlier run left, wherever that run was stopped.
C36_ServedStoreHasDefaults ==
    process = "serving" => (Anonymous \in DOMAIN users /\ General \in DOMAIN channels)

----------------------------------------------------------------------------
\* C37: on a file that is a sequence of objects, Replay returns: start-up
\* goes on with no error or ends with the error Replay returned, and
\* never with a panic - whatever the objects hold as Action and as Name.
C37_ReplayNeverPanics ==
    (lastCall[1] = "Replay" /\ ValidSequence(logFile)) => lastCall[2] # "panic"

----------------------------------------------------------------------------
(* What a mutation leaves alone *)

\* store m has the users of the current store, with the same blocked
\* lists but for that of who
SameUsersBut(m, who) ==
    /\ DOMAIN m.users = DOMAIN users
    /\ \A u \in DOMAIN users \ {who} : m.users[u] = users[u]

\* store m has the channels of the current store, with the same messages,
\* but for channel channelname
SameChannelsBut(m, channelname) ==
    /\ DOMAIN m.channels \ {channelname} = DOMAIN channels \ {channelname}
    /\ \A c \in DOMAIN channels \ {channelname} : m.channels[c] = channels[c]

\* C40: on every store and for every argument, BlockUser(who, target) and
\* UnblockUser(who, target) change nothing but the blocked list of who;
\* DeleteUser changes no channel and no message; CreateChannel,
\* DeleteChannel and PostMessage change no user and no channel but the one
\* they name.
C40_MutationFrames ==
    /\ \A who, target \in UserNames :
          /\ SameUsersBut(BlockUser(World, who, target), who)
          /\ BlockUser(World, who, target).channels = channels
          /\ SameUsersBut(UnblockUser(World, who, target), who)
          /\ UnblockUser(World, who, target).channels = channels
    /\ \A username \in UserNames :
          DeleteUser(World, username).channels = channels
    /\ \A channelname \in ChannelNames :
          /\ CreateChannel(World, channelname).users = users
          /\ SameChannelsBut(CreateChannel(World, channelname), channelname)
          /\ DeleteChannel(World, channelname).users = users
          /\ SameChannelsBut(DeleteChannel(World, channelname), channelname)
          /\ \A username \in UserNames, timestamp \in Timestamps, text \in Texts :
                LET m == PostMessage(World, channelname, username, timestamp, text)
                IN  /\ m.users = users
                    /\ SameChannelsBut(m, channelname)

\* alice has just been deleted and a message of hers is in a channel
C40_Witness ==
    /\ lastCall = <<"DeleteUser", Accepted>>
    /\ alice \notin DOMAIN users
    /\ \E c \in DOMAIN channels :
          \E i \in 1..Len(channels[c]) : channels[c][i].Username = alice

----------------------------------------------------------------------------
(* A telnet connection: its TelnetConn views channel General as user       *)
(* Anonymous and is connected to the engine as client "o1"; other          *)
(* connections post to General.  printed holds the message lines the       *)
(* connection wrote; the lines of the channel header are left out.         *)

TelnetClient == "o1"

\* const defaultHistoricalMessages int = 10
defaultHistoricalMessages == 10

\* message.Timestamp.Format("2006-01-02 15:04:05")
FormatTime(t) ==
    CASE t.wall = "2020-01-12T10:00:00Z" -> "2020-01-12 10:00:00"
      [] t.wall = "2020-01-12T10:00:01Z" -> "2020-01-12 10:00:01"

\* showChannelHistory: "["+timestamp+" - "+message.Username+"] "+message.Text
Line(message) ==
    <<"[", FormatTime(message.Timestamp), " - ">> \o message.Username \o <<"] ">>
        \o message.Text

\* showChannelHistory: the lines of the messages
Lines(messages) == [i \in 1..Len(messages) |-> Line(messages[i])]

\* no callback of the TelnetConn has run yet
NoFrame == [dispatch |-> NoDispatch, pc |-> "return", numMessages |-> 0]

\* a store call c of another connection returns and leaves the store as m;
\* the triggers it raised have started their goroutines
TelnetServes(m, c) ==
    /\ process = "serving"
    /\ SumLen(m.channels, DOMAIN m.channels) <= MaxPosts
    /\ Store(m)
    /\ lastCall' = c
    /\ dispatches' = Triggers(dispatches, m.triggered)
    /\ UNCHANGED <<concVars, process, clients, testActor, logged, engineMutex, delivered,
                   callerVars, fileVars, telnetVars>>

TelnetPostMessage ==
    \E timestamp \in Timestamps, text \in {<<"hi">>, <<"ho">>} :
        TelnetServes(PostMessage(Entry, General, Anonymous, timestamp, text),
                     <<"PostMessage", PostMessageChecks(Entry, General, Anonymous, text)>>)

\* ServeTELNET: NewTelnetConn (SwitchUser("Anonymous"), switchChannel(
\* "General"), showChannelHistory(defaultHistoricalMessages)) and
\* h.subsEngine.Connect(telnetConn)
TelnetOpen ==
    /\ process = "serving"
    /\ telnetConn = NoCall
    /\ engineMutex = NoDispatch
    /\ telnetConn' = [currentUser |-> Anonymous,
                      currentChannel |-> General,
                      currentChannelMessageIndex |->
                          GetChannelInfo(World, General).value.NumMessages]
    /\ printed' = Lines(GetChannelHistory(World, General, Anonymous,
                                          defaultHistoricalMessages))
    /\ frame' = NoFrame
    /\ clients' = Connect(clients, TelnetClient).clients
    /\ lastCall' = <<"Connect", TelnetClient, Connect(clients, TelnetClient).err>>
    /\ UNCHANGED <<storeVars, concVars, process, testActor, logged, dispatchVars,
                   callerVars, fileVars, session>>

\* OnChannelChanged(channelname), called by the k-th trigger's goroutine:
\* for the current channel, GetChannelInfo gives the number of new messages
OnChannelChanged(k) ==
    /\ k \in DOMAIN dispatches
    /\ dispatches[k].pc = "callback"
    /\ dispatches[k].client = TelnetClient
    /\ frame.dispatch # k
    /\ LET channelname == dispatches[k].trigger[2]
           channelInfo == GetChannelInfo(World, channelname).value
           numNewMessages ==
               channelInfo.NumMessages - telnetConn.currentChannelMessageIndex
       IN  frame' = IF telnetConn.currentChannel = channelname
                    THEN [dispatch |-> k, pc |-> "showChannelHistory",
                          numMessages |-> numNewMessages]
                    ELSE [dispatch |-> k, pc |-> "return", numMessages |-> 0]
    /\ lastCall' = <<"GetChannelInfo", k>>
    /\ UNCHANGED <<storeVars, concVars, process, clients, testActor, logged, dispatchVars,
                   callerVars, fileVars, telnetConn, printed, session>>

\* showChannelHistory: "channelInfo := t.model.GetChannelInfo(...)" and
\* "t.currentChannelMessageIndex = channelInfo.NumMessages"
ShowChannelHistoryIndex(k) ==
    /\ telnetConn # NoCall
    /\ frame.dispatch = k
    /\ frame.pc = "showChannelHistory"
    /\ telnetConn' =
          [telnetConn EXCEPT !.currentChannelMessageIndex =
              GetChannelInfo(World, telnetConn.currentChannel).value.NumMessages]
    /\ frame' = [frame EXCEPT !.pc = "GetChannelHistory"]
    /\ lastCall' = <<"showChannelHistory", k>>
    /\ UNCHANGED <<storeVars, concVars, process, clients, testActor, logged, dispatchVars,
                   callerVars, fileVars, printed, session>>

\* showChannelHistory: "messages := t.model.GetChannelHistory(...)" and
\* the lines of the messages printed
ShowChannelHistoryPrint(k) ==
    /\ telnetConn # NoCall
    /\ frame.dispatch = k
    /\ frame.pc = "GetChannelHistory"
    /\ printed' = printed \o Lines(GetChannelHistory(World, telnetConn.currentChannel,
                                                     telnetConn.currentUser,
                                                     frame.numMessages))
    /\ frame' = [frame EXCEPT !.pc = "return"]
    /\ lastCall' = <<"GetChannelHistory", k>>
    /\ UNCHANGED <<storeVars, concVars, process, clients, testActor, logged, dispatchVars,
                   callerVars, fileVars, telnetConn, session>>

\* OnChannelChanged returns to the engine's goroutine
OnChannelChangedReturns(k) ==
    /\ telnetConn # NoCall
    /\ frame.dispatch = k
    /\ frame.pc = "return"
    /\ CallbackReturns(k)

NextTelnet ==
    \/ TelnetOpen
    \/ TelnetPostMessage
    \/ \E k \in 1..Len(dispatches) : DispatchLock(k)
    \/ \E k \in 1..Len(dispatches) : DispatchCallback(k)
    \/ \E k \in 1..Len(dispatches) : OnChannelChanged(k)
    \/ \E k \in 1..Len(dispatches) : ShowChannelHistoryIndex(k)
    \/ \E k \in 1..Len(dispatches) : ShowChannelHistoryPrint(k)
    \/ \E k \in 1..Len(dispatches) : OnChannelChangedReturns(k)
    \/ \E k \in 1..Len(dispatches) : DispatchUnlock(k)

SpecTelnet == InitChannels /\ [][NextTelnet]_vars

\* C38: what the connection has printed is at any time the beginning of
\* the channel's messages, each once and in posting order, and once every
\* notification is delivered it is all of them.
C38_EveryMessagePrintedOnce ==
    telnetConn # NoCall =>
        /\ IsPrefix(printed, Lines(channels[General]))
        /\ (\A k \in DOMAIN dispatches : dispatches[k].pc = "done") =>
               printed = Lines(channels[General])

----------------------------------------------------------------------------
(* package telnetapi: the end of a telnet session.  session holds the      *)
(* position of ServeTELNET and of its handleConn goroutine and the state   *)
(* of the client's connection; connChan is unbuffered, so a send on it     *)
(* completes only while ServeTELNET is at "err = <-connChan".  A callback  *)
(* of the engine that has failed to write waits in frame.pc = "send".      *)

\* ServeTELNET: NewTelnetConn, h.subsEngine.Connect(telnetConn) and
\* "go h.handleConn(...)"; ServeTELNET then waits at "err = <-connChan"
SessionOpen ==
    /\ process = "serving"
    /\ telnetConn = NoCall
    /\ engineMutex = NoDispatch
    /\ telnetConn' = [currentUser |-> Anonymous,
                      currentChannel |-> General,
                      currentChannelMessageIndex |->
                          GetChannelInfo(World, General).value.NumMessages]
    /\ printed' = Lines(GetChannelHistory(World, General, Anonymous,
                                          defaultHistoricalMessages))
    /\ frame' = NoFrame
    /\ clients' = Connect(clients, TelnetClient).clients
    /\ session' = [ServeTELNET |-> "<-connChan", handleConn |-> "Read",
                   writer |-> "open"]
    /\ lastCall' = <<"Connect", TelnetClient, Connect(clients, TelnetClient).err>>
    /\ UNCHANGED <<storeVars, concVars, process, testActor, logged, dispatchVars,
                   callerVars, fileVars>>

\* the telnet client closes its connection: reads fail from now on, and
\* writes may fail
ClientCloses ==
    /\ process = "serving"
    /\ session # NoCall
    /\ session.writer = "open"
    /\ session' = [session EXCEPT !.writer = "closed"]
    /\ lastCall' = <<"client", "closed">>
    /\ UNCHANGED <<storeVars, concVars, process, clients, testActor, logged, dispatchVars,
                   callerVars, fileVars, telnetConn, frame, printed>>

\* handleConn: "n, err := reader.Read(p)" fails and the goroutine comes
\* to "c <- nil"
HandleConnReadFails ==
    /\ process = "serving"
    /\ session # NoCall
    /\ session.handleConn = "Read"
    /\ session.writer = "closed"
    /\ session' = [session EXCEPT !.handleConn = "c <- nil"]
    /\ lastCall' = <<"Read", "error">>
    /\ UNCHANGED <<storeVars, concVars, process, clients, testActor, logged, dispatchVars,
                   callerVars, fileVars, telnetConn, frame, printed>>

\* "c <- nil" meets "err = <-connChan": handleConn returns and ServeTELNET
\* goes on to h.subsEngine.Disconnect(telnetConn)
ServeReceivesNil ==
    /\ process = "serving"
    /\ session # NoCall
    /\ session.ServeTELNET = "<-connChan"
    /\ session.handleConn = "c <- nil"
    /\ session' = [session EXCEPT !.ServeTELNET = "Disconnect", !.handleConn = "return"]
    /\ lastCall' = <<"<-connChan", Nil>>
    /\ UNCHANGED <<storeVars, concVars, process, clients, testActor, logged, dispatchVars,
                   callerVars, fileVars, telnetConn, frame, printed>>

\* printLinesCallback, called by showChannelHistory in the k-th trigger's
\* goroutine: LongWriteString fails on the closed connection and the
\* goroutine comes to "connChan <- err"; the index is set as before
WriteFails(k) ==
    /\ process = "serving"
    /\ telnetConn # NoCall
    /\ session # NoCall
    /\ session.writer = "closed"
    /\ frame.dispatch = k
    /\ frame.pc = "GetChannelHistory"
    /\ Lines(GetChannelHistory(World, telnetConn.currentChannel, telnetConn.currentUser,
                               frame.numMessages)) # << >>
    /\ frame' = [frame EXCEPT !.pc = "connChan <- err"]
    /\ lastCall' = <<"LongWriteString", k, "error">>
    /\ UNCHANGED <<storeVars, concVars, process, clients, testActor, logged, dispatchVars,
                   callerVars, fileVars, telnetConn, printed, session>>

\* "connChan <- err" of a callback meets "err = <-connChan": ServeTELNET
\* finds err != nil and calls log.Fatal(err)
ServeReceivesErr(k) ==
    /\ process = "serving"
    /\ session # NoCall
    /\ session.ServeTELNET = "<-connChan"
    /\ telnetConn # NoCall
    /\ frame.dispatch = k
    /\ frame.pc = "connChan <- err"
    /\ process' = LogFatal
    /\ session' = [session EXCEPT !.ServeTELNET = "log.Fatal"]
    /\ frame' = [frame EXCEPT !.pc = "return"]
    /\ lastCall' = <<"<-connChan", "error">>
    /\ UNCHANGED <<storeVars, concVars, clients, testActor, logged, dispatchVars,
                   callerVars, fileVars, telnetConn, printed>>

\* ServeTELNET: h.subsEngine.Disconnect(telnetConn) gets the engine mutex;
\* an error is fatal, otherwise ServeTELNET returns
ServeTELNETDisconnect ==
    /\ process = "serving"
    /\ session # NoCall
    /\ session.ServeTELNET = "Disconnect"
    /\ engineMutex = NoDispatch
    /\ LET r == Disconnect(clients, TelnetClient)
       IN  /\ clients' = r.clients
           /\ process' = IF r.err # Nil THEN LogFatal ELSE process
           /\ session' = [session EXCEPT !.ServeTELNET =
                             IF r.err # Nil THEN "log.Fatal" ELSE "return"]
           /\ lastCall' = <<"Disconnect", TelnetClient, r.err>>
    /\ UNCHANGED <<storeVars, concVars, testActor, logged, dispatchVars,
                   callerVars, fileVars, telnetConn, frame, printed>>

NextSession ==
    \/ SessionOpen
    \/ TelnetPostMessage
    \/ ClientCloses
    \/ HandleConnReadFails
    \/ ServeReceivesNil
    \/ ServeTELNETDisconnect
    \/ \E k \in 1..Len(dispatches) : process = "serving" /\ DispatchLock(k)
    \/ \E k \in 1..Len(dispatches) : process = "serving" /\ DispatchCallback(k)
    \/ \E k \in 1..Len(dispatches) : process = "serving" /\ OnChannelChanged(k)
    \/ \E k \in 1..Len(dispatches) : process = "serving" /\ ShowChannelHistoryIndex(k)
    \/ \E k \in 1..Len(dispatches) : process = "serving" /\ ShowChannelHistoryPrint(k)
    \/ \E k \in 1..Len(dispatches) : WriteFails(k)
    \/ \E k \in 1..Len(dispatches) : ServeReceivesErr(k)
    \/ \E k \in 1..Len(dispatches) : process = "serving" /\ OnChannelChangedReturns(k)
    \/ \E k \in 1..Len(dispatches) : process = "serving" /\ DispatchUnlock(k)

SpecSession == InitChannels /\ [][NextSession]_vars

\* the k-th trigger's goroutine holds the engine mutex and waits in
\* "connChan <- err"
BlockedInSend(k) ==
    /\ engineMutex = k
    /\ telnetConn # NoCall
    /\ frame.dispatch = k
    /\ frame.pc = "connChan <- err"

\* C39: the end of a session does not terminate the process, and a trigger's
\* goroutine that holds the engine mutex and waits to send on connChan has
\* ServeTELNET waiting to receive from it.
C39_SessionEndLeavesEngineUsable ==
    /\ process # LogFatal
    /\ \A k \in DOMAIN dispatches :
           BlockedInSend(k) => session.ServeTELNET = "<-connChan"

====
